---- MODULE Spec2Model ----
(***************************************************************************)
(* Model of the catalog-matching core of AI_Shopping_Helper:               *)
(*   backend/ai_scoring/quality_scorer.py   QualityScorer                  *)
(*   backend/database/product_db.py         ProductDatabase                *)
(*   backend/ai/recommendations.py          ProductRecommendationEngine    *)
(*                                                                         *)
(* Numbers.  Python floats are modelled as exact rationals <<n, d>> with   *)
(* d > 0 and gcd(n, d) = 1.  round(x, 2) is modelled as round-half-even on *)
(* the exact value.                                                        *)
(*                                                                         *)
(* Text.  A free-text spec value is modelled after str(v).lower() as a     *)
(* sequence of tokens separated by single blanks: a maximal run of digits  *)
(* is a number token, a maximal run of letters is a word token.  What a    *)
(* word starts with or contains is tabulated for the vocabulary in         *)
(* WordStarts and WordContains.                                            *)
(***************************************************************************)
EXTENDS Integers, Sequences, FiniteSets, TLC

VARIABLES
    category_scorecards,  \* QualityScorer.category_scorecards
    ret,                  \* the last call of a QualityScorer method: arguments and outcome
    products,             \* rows of the products table (Catalog Store), by id
    seq,                  \* the AUTOINCREMENT counter of the products table
    alt,                  \* the last call of ProductDatabase.find_alternatives
    use_chroma,           \* ProductRecommendationEngine.use_chroma
    collection,           \* the ChromaDB collection "product_embeddings", by id
    product_embeddings,   \* the SQLite table product_embeddings, by product_id
    rec,                  \* the last call of a ProductRecommendationEngine method
    gen                   \* a run of generate_embeddings_for_all_products: its position and locals

vars == <<category_scorecards, ret, products, seq, alt,
          use_chroma, collection, product_embeddings, rec, gen>>

----------------------------------------------------------------------------
(* Exact rational arithmetic standing for Python float arithmetic.         *)

RECURSIVE GCD(_, _)
GCD(a, b) == IF b = 0 THEN a ELSE GCD(b, a % b)

Abs(x) == IF x < 0 THEN -x ELSE x

Rat(n, d) ==
    LET s == IF d < 0 THEN -1 ELSE 1
        g == GCD(Abs(n), Abs(d))
    IN  <<(s * n) \div g, (s * d) \div g>>

RInt(k) == <<k, 1>>
RAdd(x, y) == Rat(x[1] * y[2] + y[1] * x[2], x[2] * y[2])
RSub(x, y) == Rat(x[1] * y[2] - y[1] * x[2], x[2] * y[2])
RMul(x, y) ==
    LET a == Rat(x[1], y[2])
        b == Rat(y[1], x[2])
    IN  <<a[1] * b[1], a[2] * b[2]>>
RDiv(x, y) == RMul(x, Rat(y[2], y[1]))
RLe(x, y) == x[1] * y[2] <= y[1] * x[2]
RLt(x, y) == x[1] * y[2] < y[1] * x[2]
RMin(x, y) == IF RLt(y, x) THEN y ELSE x      \* Python min(x, y)
RMax(x, y) == IF RLt(x, y) THEN y ELSE x      \* Python max(x, y)

\* round(x, 2) as a rational: the nearest multiple of 1/100, ties to even.
Round2(x) ==
    LET whole == x[1] \div x[2]
        rem   == x[1] % x[2]
        h     == (100 * rem) \div x[2]
        r2    == 2 * ((100 * rem) % x[2])
        up    == r2 > x[2] \/ (r2 = x[2] /\ h % 2 = 1)
    IN  Rat(whole * 100 + h + (IF up THEN 1 ELSE 0), 100)

----------------------------------------------------------------------------
(* Text.                                                                   *)

N(n) == [t |-> "n", n |-> n, w |-> ""]
W(w) == [t |-> "w", n |-> 0, w |-> w]

\* The unit prefixes of the regular expressions a vocabulary word starts with.
WordStarts ==
    [ h |-> {"h"}, hours |-> {"h"}, hz |-> {"h", "hz"}, khz |-> {"khz"},
      mm |-> {"mm"}, min |-> {"min"}, minutes |-> {"min"},
      w |-> {"w"}, watts |-> {"w"}, waterproof |-> {"w"},
      mp |-> {"mp"}, mah |-> {"mah"}, gb |-> {"gb"} ]

\* The keywords a vocabulary word contains as substrings.
WordContains ==
    [ hz |-> {"hz"}, khz |-> {"khz", "hz"},
      anc |-> {"anc"}, cancellation |-> {"anc", "cancellation"},
      balanced |-> {"anc"}, active |-> {"active"}, noise |-> {"noise"},
      metal |-> {"metal"}, aluminum |-> {"aluminum"}, premium |-> {"premium"},
      steel |-> {"steel"}, stainless |-> {"stainless"}, titanium |-> {"titanium"},
      ceramic |-> {"ceramic"}, plastic |-> {"plastic"}, basic |-> {"basic"},
      waterproof |-> {"waterproof"}, water |-> {"water"}, resistant |-> {"resistant"},
      ipx |-> {"ipx"},
      cotton |-> {"cotton"}, silk |-> {"silk"}, wool |-> {"wool"},
      linen |-> {"linen"}, organic |-> {"organic"},
      polyester |-> {"polyester"}, synthetic |-> {"synthetic"}, blend |-> {"blend"} ]

Starts(w) == IF w \in DOMAIN WordStarts THEN WordStarts[w] ELSE {}
Contains(w) == IF w \in DOMAIN WordContains THEN WordContains[w] ELSE {}

\* keyword in text, for a keyword of one word or of two words joined by a blank.
Has(text, kw) ==
    IF Len(kw) = 1
    THEN \E i \in 1..Len(text) : text[i].t = "w" /\ kw[1] \in Contains(text[i].w)
    ELSE \E i \in 1..(Len(text) - 1) :
            /\ text[i].t = "w" /\ text[i].w = kw[1]
            /\ text[i + 1].t = "w" /\ text[i + 1].w = kw[2]

AnyKeyword(text, kws) == \E kw \in kws : Has(text, kw)

----------------------------------------------------------------------------
(* Python dict of specs: an insertion-ordered sequence of [k, v] items     *)
(* with distinct keys.  kind "none" stands for specs = None, kind "list"   *)
(* for a list argument (it has len and `in`, no get and no values).        *)

Dict(items) == [kind |-> "dict", items |-> items]
NoneSpecs == [kind |-> "none", items |-> <<>>]
ListSpecs(n) == [kind |-> "list", items |-> [i \in 1..n |-> [k |-> "", v |-> <<>>]]]
It(k, v) == [k |-> k, v |-> v]

HasKey(specs, k) == \E i \in 1..Len(specs.items) : specs.items[i].k = k
Get(specs, k, default) ==
    IF HasKey(specs, k)
    THEN specs.items[CHOOSE i \in 1..Len(specs.items) : specs.items[i].k = k].v
    ELSE default

RECURSIVE JoinValues(_)
JoinValues(items) ==
    IF items = <<>> THEN <<>> ELSE Head(items).v \o JoinValues(Tail(items))

(* _extract_numeric_value: {} stands for None, {v} for the float v.        *)
MatchAt(text, unit) ==
    { i \in 1..Len(text) :
        /\ text[i].t = "n"
        /\ \/ unit = ""
           \/ /\ i < Len(text)
              /\ text[i + 1].t = "w"
              /\ unit \in Starts(text[i + 1].w) }

Min(S) == CHOOSE x \in S : \A y \in S : x <= y

RECURSIVE _extract_numeric_value(_, _)
_extract_numeric_value(text, patterns) ==
    IF text = <<>> \/ patterns = <<>> THEN {}
    ELSE LET m == MatchAt(text, Head(patterns))
         IN  IF m # {}
             THEN LET value == text[Min(m)].n
                  IN  IF Has(text, <<"khz">>) THEN {value * 1000} ELSE {value}
             ELSE _extract_numeric_value(text, Tail(patterns))

----------------------------------------------------------------------------
(* Spec Normalizer.  A normalizer body yields [raised, val]: raised when   *)
(* the Python code throws (a specs argument that is no mapping), val the   *)
(* normalized feature set, a function from feature name to number.         *)

\* Mutant of Truthy: only None is falsy, a value of 0 counts as extracted.
Truthy_ZeroIsPresent(x) == x # {}

Truthy(x) == x # {} /\ x # {0}                 \* `if value:` on None or a float
Val(x) == CHOOSE v \in x : TRUE
Empty == [f \in {} |-> 0]
Feature(x, f) == IF Truthy(x) THEN f :> Val(x) ELSE Empty
Returned(val) == [raised |-> FALSE, val |-> val]
Raised == [raised |-> TRUE, val |-> Empty]

_normalize_headphones_specs(specs) ==
    IF specs.kind # "dict" THEN Raised
    ELSE
    LET battery_hours ==
            IF HasKey(specs, "battery_life") \/ HasKey(specs, "Battery Life")
            THEN _extract_numeric_value(
                     Get(specs, "battery_life", Get(specs, "Battery Life", <<>>)), <<"h">>)
            ELSE {}
        driver_size ==
            IF HasKey(specs, "driver_size") \/ HasKey(specs, "Driver Size")
            THEN _extract_numeric_value(
                     Get(specs, "driver_size", Get(specs, "Driver Size", <<>>)), <<"mm">>)
            ELSE {}
        specs_text == JoinValues(specs.items)
        noise_cancellation ==
            IF AnyKeyword(specs_text, {<<"noise", "cancellation">>, <<"anc">>, <<"active", "noise">>})
            THEN 1 ELSE 0
        build_quality ==
            IF AnyKeyword(specs_text, {<<"metal">>, <<"aluminum">>, <<"premium">>, <<"steel">>})
            THEN 5
            ELSE IF AnyKeyword(specs_text, {<<"plastic">>, <<"basic">>}) THEN 2 ELSE 3
        freq_value ==
            _extract_numeric_value(
                Get(specs, "frequency_response", Get(specs, "Frequency Response", <<>>)),
                <<"hz", "khz">>)
    IN  Returned(Feature(battery_hours, "battery_life")
                 @@ Feature(driver_size, "driver_size")
                 @@ ("noise_cancellation" :> noise_cancellation)
                 @@ ("build_quality" :> build_quality)
                 @@ Feature(freq_value, "frequency_response"))

_normalize_trimmer_specs(specs) ==
    IF specs.kind # "dict" THEN Raised
    ELSE
    LET runtime_minutes ==
            _extract_numeric_value(Get(specs, "runtime", Get(specs, "Battery Life", <<>>)), <<"min">>)
        specs_text == JoinValues(specs.items)
        blade_quality ==
            IF Has(specs_text, <<"stainless", "steel">>) \/ Has(specs_text, <<"titanium">>) THEN 5
            ELSE IF Has(specs_text, <<"steel">>) THEN 4
            ELSE IF Has(specs_text, <<"ceramic">>) THEN 4
            ELSE 3
        waterproof ==
            IF AnyKeyword(specs_text, {<<"waterproof">>, <<"water", "resistant">>, <<"ipx">>})
            THEN 1 ELSE 0
        attachments_count ==
            _extract_numeric_value(Get(specs, "attachments", Get(specs, "Accessories", <<>>)), <<"">>)
    IN  Returned(Feature(runtime_minutes, "runtime")
                 @@ ("blade_material" :> blade_quality)
                 @@ ("waterproof" :> waterproof)
                 @@ Feature(attachments_count, "attachments"))

_normalize_mixer_specs(specs) ==
    IF specs.kind # "dict" THEN Raised
    ELSE
    LET power_watts == _extract_numeric_value(Get(specs, "power", Get(specs, "Power", <<>>)), <<"w">>)
        jar_count   == _extract_numeric_value(Get(specs, "jars", Get(specs, "Jars", <<>>)), <<"">>)
        speed_count == _extract_numeric_value(Get(specs, "speeds", Get(specs, "Speed Settings", <<>>)), <<"">>)
    IN  Returned(Feature(power_watts, "power_output")
                 @@ Feature(jar_count, "jar_count")
                 @@ Feature(speed_count, "speed_settings"))

_normalize_smartphone_specs(specs) ==
    IF specs.kind # "dict" THEN Raised
    ELSE
    LET camera_mp   == _extract_numeric_value(Get(specs, "camera", Get(specs, "Camera", <<>>)), <<"mp">>)
        battery_mah == _extract_numeric_value(Get(specs, "battery", Get(specs, "Battery", <<>>)), <<"mah">>)
        ram_gb      == _extract_numeric_value(Get(specs, "ram", Get(specs, "RAM", <<>>)), <<"gb">>)
    IN  Returned(Feature(camera_mp, "camera")
                 @@ Feature(battery_mah, "battery")
                 @@ Feature(ram_gb, "ram"))

_normalize_laptop_specs(specs) == Returned(Empty)

_normalize_clothing_specs(specs) ==
    IF specs.kind # "dict" THEN Raised
    ELSE
    LET specs_text == JoinValues(specs.items)
        material_quality ==
            IF AnyKeyword(specs_text, {<<"cotton">>, <<"silk">>, <<"wool">>, <<"linen">>, <<"organic">>})
            THEN 5
            ELSE IF AnyKeyword(specs_text, {<<"polyester">>, <<"synthetic">>, <<"blend">>})
                 THEN 2 ELSE 3
    IN  Returned("material" :> material_quality)

\* Mutant of _normalize_general_specs: features is scaled by a reference of 10
\* entries instead of saturating at one entry.
_normalize_general_specs_Scaled(specs) ==
    IF specs.kind = "none" THEN Raised
    ELSE Returned(("quality" :> 3) @@ ("features" :> Len(specs.items) \div 10)
                  @@ ("durability" :> 3) @@ ("value" :> 3))

_normalize_general_specs(specs) ==
    IF specs.kind = "none" THEN Raised         \* len(None)
    ELSE Returned(("quality" :> 3) @@ ("features" :> Len(specs.items))
                  @@ ("durability" :> 3) @@ ("value" :> 3))

\* The dispatch inside the try block of _normalize_specs.
NormalizeDispatch(specs, category) ==
    CASE category = "headphones" -> _normalize_headphones_specs(specs)
      [] category = "trimmer"    -> _normalize_trimmer_specs(specs)
      [] category = "mixer"      -> _normalize_mixer_specs(specs)
      [] category = "smartphone" -> _normalize_smartphone_specs(specs)
      [] category = "laptop"     -> _normalize_laptop_specs(specs)
      [] category = "clothing"   -> _normalize_clothing_specs(specs)
      [] OTHER                   -> _normalize_general_specs(specs)

\* _normalize_specs: an exception of the dispatch is logged and {} is returned.
_normalize_specs(specs, category) ==
    LET r == NormalizeDispatch(specs, category)
    IN  IF r.raised THEN Empty ELSE r.val

----------------------------------------------------------------------------
(* Quality Scorer.                                                         *)

DefaultScorecards ==
    [ headphones |-> [battery_life |-> 30, driver_size |-> 25, noise_cancellation |-> 20,
                      build_quality |-> 15, frequency_response |-> 10],
      trimmer    |-> [runtime |-> 30, blade_material |-> 25, waterproof |-> 20,
                      attachments |-> 15, charging_time |-> 10],
      mixer      |-> [power_output |-> 30, jar_count |-> 25, speed_settings |-> 20,
                      warranty |-> 15, safety_features |-> 10],
      smartphone |-> [camera |-> 25, battery |-> 25, processor |-> 20, ram |-> 15,
                      storage |-> 15],
      laptop     |-> [processor |-> 30, ram |-> 25, storage |-> 20, display |-> 15,
                      battery |-> 10],
      clothing   |-> [material |-> 30, fit |-> 25, durability |-> 20, comfort |-> 15,
                      design |-> 10],
      general    |-> [quality |-> 40, features |-> 30, durability |-> 20, value |-> 10] ]

reference_values ==
    [ headphones |-> [battery_life |-> 40, driver_size |-> 50, noise_cancellation |-> 1,
                      build_quality |-> 5, frequency_response |-> 40000],
      trimmer    |-> [runtime |-> 120, blade_material |-> 5, waterproof |-> 1,
                      attachments |-> 10, charging_time |-> 8],
      mixer      |-> [power_output |-> 1000, jar_count |-> 5, speed_settings |-> 10,
                      warranty |-> 5, safety_features |-> 5],
      smartphone |-> [camera |-> 108, battery |-> 5000, processor |-> 5, ram |-> 12,
                      storage |-> 256] ]

RECURSIVE SumValues(_)
SumValues(scorecard) ==                              \* sum(scorecard.values())
    IF DOMAIN scorecard = {} THEN 0
    ELSE LET f == CHOOSE x \in DOMAIN scorecard : TRUE
         IN  scorecard[f] + SumValues([g \in DOMAIN scorecard \ {f} |-> scorecard[g]])

\* Mutant of FeaturePoints: a missing feature earns nothing instead of 60%.
FeaturePoints_NoDefault(feature, max_points, normalized_specs, reference_vals) ==
    IF feature \in DOMAIN normalized_specs
    THEN LET value == normalized_specs[feature]
             reference_val == IF feature \in DOMAIN reference_vals
                              THEN reference_vals[feature] ELSE 1
             ratio == RMin(Rat(value, reference_val), RInt(1))
         IN  IF feature = "charging_time"
             THEN RMul(RInt(max_points), RSub(RInt(1), ratio))
             ELSE RMul(RInt(max_points), ratio)
    ELSE RInt(0)

\* The points one scorecard feature adds to total_points (the loop body).
FeaturePoints(feature, max_points, normalized_specs, reference_vals) ==
    IF feature \in DOMAIN normalized_specs
    THEN LET value == normalized_specs[feature]
             reference_val == IF feature \in DOMAIN reference_vals
                              THEN reference_vals[feature] ELSE 1
             ratio == RMin(Rat(value, reference_val), RInt(1))
         IN  IF feature = "charging_time"
             THEN RMul(RInt(max_points), RSub(RInt(1), ratio))
             ELSE RMul(RInt(max_points), ratio)
    ELSE RMul(RInt(max_points), Rat(6, 10))

RECURSIVE TotalPoints(_, _, _, _)
TotalPoints(features, scorecard, normalized_specs, reference_vals) ==
    IF features = {} THEN RInt(0)
    ELSE LET f == CHOOSE x \in features : TRUE
         IN  RAdd(FeaturePoints(f, scorecard[f], normalized_specs, reference_vals),
                  TotalPoints(features \ {f}, scorecard, normalized_specs, reference_vals))

\* Mutant of ClampScore: the score is returned as computed.
ClampScore_None(quality_score) == quality_score

\* max(0, min(100, quality_score))
ClampScore(quality_score) == RMax(RInt(0), RMin(RInt(100), quality_score))

\* Mutant of ResolveCategory: no fallback, the lookup of an unknown category fails.
ResolveCategory_NoFallback(scorecards, category) == category

\* if category not in self.category_scorecards: category = 'general'
ResolveCategory(scorecards, category) ==
    IF category \notin DOMAIN scorecards THEN "general" ELSE category

\* The try block of calculate_quality_score: [raised, val].
QualityScoreBody(scorecards, product_specs, category0) ==
    LET category == ResolveCategory(scorecards, category0)
    IN  IF category \notin DOMAIN scorecards THEN [raised |-> TRUE, val |-> RInt(0)]
        ELSE
        LET scorecard == scorecards[category]
            reference_vals == IF category \in DOMAIN reference_values
                              THEN reference_values[category] ELSE Empty
            max_possible_points == SumValues(scorecard)
            normalized_specs == _normalize_specs(product_specs, category)
            total_points == TotalPoints(DOMAIN scorecard, scorecard, normalized_specs,
                                        reference_vals)
        IN  IF max_possible_points = 0                    \* ZeroDivisionError
            THEN [raised |-> TRUE, val |-> RInt(0)]
            ELSE [raised |-> FALSE,
                  val |-> ClampScore(RMul(RDiv(total_points, RInt(max_possible_points)),
                                          RInt(100)))]

\* Mutant of calculate_quality_score: the exception reaches the caller.
calculate_quality_score_Propagates(scorecards, product_specs, category) ==
    QualityScoreBody(scorecards, product_specs, category)

\* calculate_quality_score: any exception of the body is logged, 60.0 is returned.
calculate_quality_score(scorecards, product_specs, category) ==
    LET r == QualityScoreBody(scorecards, product_specs, category)
    IN  IF r.raised THEN [raised |-> FALSE, val |-> RInt(60)] ELSE r

Float(x) == [kind |-> "float", v |-> x]
NoneRating == [kind |-> "none", v |-> RInt(0)]

\* Mutant of calculate_final_score: the product is returned unrounded.
calculate_final_score_NoRound(quality_score, rating) ==
    IF rating.kind # "float"
    THEN RMul(quality_score, Rat(8, 10))
    ELSE RMul(quality_score, RDiv(rating.v, RInt(5)))

\* Mutant of calculate_final_score: the rating is clamped to [0, 5] first.
calculate_final_score_Clamped(quality_score, rating) ==
    IF rating.kind # "float"
    THEN RMul(quality_score, Rat(8, 10))
    ELSE Round2(RMul(quality_score,
                     RDiv(RMax(RInt(0), RMin(RInt(5), rating.v)), RInt(5))))

\* calculate_final_score: rating / 5.0 throws on a rating that is no number.
calculate_final_score(quality_score, rating) ==
    IF rating.kind # "float"
    THEN RMul(quality_score, Rat(8, 10))
    ELSE LET normalized_rating == RDiv(rating.v, RInt(5))
             final_score == RMul(quality_score, normalized_rating)
         IN  Round2(final_score)

\* add_custom_scorecard: self.category_scorecards[category] = scorecard
add_custom_scorecard(scorecards, category, scorecard) ==
    [c \in DOMAIN scorecards \cup {category} |->
        IF c = category THEN scorecard ELSE scorecards[c]]

----------------------------------------------------------------------------
(* Inputs of the Quality Scorer calls.                                     *)

MaxListLen == 2
MaxCustom == 1       \* categories whose scorecard differs from the built-in tables

\* No item, or one item with key k and one of the texts.
Opt(k, texts) == {<<>>} \cup { <<It(k, t)>> : t \in texts }

HeadphonesSpecs ==
    { Dict(a \o b \o c \o d \o e) :
        a \in Opt("battery_life", {<<N(40), W("h")>>, <<N(0), W("h")>>,
                                   <<N(10), W("h"), N(1), W("khz")>>}),
        b \in Opt("driver_size", {<<N(50), W("mm")>>}),
        c \in Opt("noise_cancellation", {<<W("active"), W("noise"), W("cancellation")>>}),
        d \in Opt("build_quality", {<<W("premium"), W("metal"), W("construction")>>,
                                    <<W("plastic")>>, <<W("metal"), W("plastic")>>}),
        e \in Opt("frequency_response", {<<N(20), W("hz"), N(20), W("khz")>>,
                                         <<N(40000), W("hz")>>, <<N(1), W("hz")>>,
                                         <<N(20), W("khz")>>}) }

TrimmerSpecs ==
    { Dict(a \o b \o c \o d \o e) :
        a \in Opt("runtime", {<<N(120), W("min")>>}),
        b \in Opt("blade_material", {<<W("stainless"), W("steel")>>, <<W("ceramic")>>,
                                     <<W("plastic")>>}),
        c \in Opt("waterproof", {<<W("waterproof")>>}),
        d \in Opt("attachments", {<<N(10)>>}),
        e \in Opt("charging_time", {<<N(1), W("h")>>, <<N(8), W("h")>>}) }

MixerSpecs ==
    { Dict(a \o b \o c \o d) :
        a \in Opt("power", {<<N(1000), W("w")>>}),
        b \in Opt("jars", {<<N(5)>>, <<N(0)>>}),
        c \in Opt("speeds", {<<N(10)>>}),
        d \in {<<>>, <<It("warranty", <<N(5), W("years")>>), It("safety_features", <<N(5)>>)>>} }

SmartphoneSpecs ==
    { Dict(a \o b \o c \o d) :
        a \in Opt("camera", {<<N(108), W("mp")>>, <<N(1), W("mp")>>}),
        b \in Opt("battery", {<<N(5000), W("mah")>>}),
        c \in Opt("ram", {<<N(12), W("gb")>>}),
        d \in {<<>>, <<It("processor", <<N(5)>>), It("storage", <<N(256), W("gb")>>)>>} }

LaptopSpecs ==
    { Dict(<<It("processor", <<N(5)>>), It("ram", <<N(64), W("gb")>>),
             It("storage", <<N(2048), W("gb")>>), It("display", <<N(5)>>),
             It("battery", <<N(99), W("wh")>>)>>) }

ClothingSpecs ==
    { Dict(a \o b) :
        a \in Opt("material", {<<W("cotton")>>, <<W("polyester")>>,
                               <<W("cotton"), W("polyester"), W("blend")>>}),
        b \in {<<>>, <<It("fit", <<N(5)>>), It("durability", <<N(5)>>),
                       It("comfort", <<N(5)>>), It("design", <<N(5)>>)>>} }

GeneralSpecs == { Dict(<<It("some_feature", <<W("value")>>)>>) }

\* tests/test_core.py test_headphones_scoring
TestSpecs ==
    { Dict(<<It("battery_life", <<N(24), W("hours")>>),
             It("driver_size", <<N(40), W("mm")>>),
             It("noise_cancellation", <<W("active"), W("noise"), W("cancellation")>>),
             It("build_quality", <<W("premium"), W("metal"), W("construction")>>)>>) }

NonMappingSpecs == {NoneSpecs} \cup { ListSpecs(n) : n \in 0..MaxListLen }

SpecsInputs ==
    HeadphonesSpecs \cup TrimmerSpecs \cup MixerSpecs \cup SmartphoneSpecs
    \cup LaptopSpecs \cup ClothingSpecs \cup GeneralSpecs \cup TestSpecs
    \cup NonMappingSpecs

BuiltinCategories == DOMAIN DefaultScorecards
CategoryInputs == BuiltinCategories \cup {"invalid_category", "custom"}

\* Scorecards a caller registers with add_custom_scorecard.
CustomScorecards ==
    { [a |-> 7, b |-> 3],
      [quality |-> 30, x |-> -10],
      [quality |-> -30, x |-> 40],
      [quality |-> 5, x |-> -5],
      [features |-> 10] }
CustomCategories == {"custom", "general"}

RatingInputs ==
    { Float(RInt(0)), Float(RInt(1)), Float(Rat(9, 2)), Float(RInt(5)), Float(RInt(6)),
      NoneRating }

NoCall ==
    [op |-> "none", specs |-> NoneSpecs, category |-> "", q |-> RInt(0),
     rating |-> NoneRating, out |-> [raised |-> FALSE, val |-> RInt(0)]]

\* The categories whose scorecard is not the one __init__ set.
Customized(scorecards) ==
    { c \in DOMAIN scorecards :
        c \notin DOMAIN DefaultScorecards \/ scorecards[c] # DefaultScorecards[c] }

----------------------------------------------------------------------------
(* The state machine.                                                      *)

\* No call of find_alternatives has been made yet.
NoAlternatives ==
    [op |-> "none", category |-> "", target_score |-> 0, max_price |-> 0, limit |-> 0,
     query_failed |-> FALSE, catalog |-> <<>>,
     out |-> [raised |-> FALSE, val |-> <<>>]]

\* No call of the recommendation engine has been made yet; `before` is the index
\* as a call found it.
NoRecommendations ==
    [op |-> "none", product_id |-> 0, num_recommendations |-> 0, found |-> FALSE,
     out |-> [raised |-> FALSE, val |-> <<>>], status |-> 0,
     before |-> [collection |-> <<>>, product_embeddings |-> <<>>]]

\* No generate_embeddings_for_all_products is running: `rows` is the products it
\* read, `ids` what collection.get() returned, `before` the index it started on.
NoReindex ==
    [pc |-> "idle", rows |-> <<>>, ids |-> {},
     before |-> [collection |-> <<>>, product_embeddings |-> <<>>]]

\* The services as constructed, over an empty catalog and an empty index, with
\* the environment's USE_CHROMA setting.
Constructed(chroma) ==
    /\ category_scorecards = DefaultScorecards
    /\ ret = NoCall
    /\ products = <<>>
    /\ seq = 0
    /\ alt = NoAlternatives
    /\ use_chroma = chroma
    /\ collection = <<>>
    /\ product_embeddings = <<>>
    /\ rec = NoRecommendations
    /\ gen = NoReindex

\* USE_CHROMA unset: ChromaDB is the default backend.
Init == Constructed(TRUE)

\* USE_CHROMA set to 0, false or no: the SQLite brute-force backend.
InitSqlite == Constructed(FALSE)

\* scorer.calculate_quality_score(product_specs, category)
CalculateQualityScore(product_specs, category) ==
    /\ ret.op = "none"
    /\ ret' = [NoCall EXCEPT !.op = "calculate_quality_score",
                             !.specs = product_specs,
                             !.category = category,
                             !.out = calculate_quality_score(category_scorecards,
                                                             product_specs, category)]
    /\ UNCHANGED <<category_scorecards, products, seq, alt,
                 use_chroma, collection, product_embeddings, rec, gen>>

\* scorer.calculate_final_score(quality_score, rating), on the quality score the
\* scorer returned last (routes.py analyze_product, data_collector.py)
CalculateFinalScore(rating) ==
    /\ ret.op = "calculate_quality_score"
    /\ ~ret.out.raised
    /\ ret' = [NoCall EXCEPT !.op = "calculate_final_score",
                             !.q = ret.out.val,
                             !.rating = rating,
                             !.out = [raised |-> FALSE,
                                      val |-> calculate_final_score(ret.out.val, rating)]]
    /\ UNCHANGED <<category_scorecards, products, seq, alt,
                 use_chroma, collection, product_embeddings, rec, gen>>

\* The caller has used the score (analyze_product builds its response).
Respond ==
    /\ ret.op # "none"
    /\ ret' = NoCall
    /\ UNCHANGED <<category_scorecards, products, seq, alt,
                 use_chroma, collection, product_embeddings, rec, gen>>

\* scorer.add_custom_scorecard(category, scorecard)
AddCustomScorecard(category, scorecard) ==
    /\ ret.op = "none"
    /\ Cardinality(Customized(category_scorecards) \cup {category}) <= MaxCustom
    /\ category_scorecards' = add_custom_scorecard(category_scorecards, category, scorecard)
    /\ ret' = NoCall
    /\ UNCHANGED <<products, seq, alt, use_chroma, collection, product_embeddings, rec, gen>>

NextScorer ==
    \/ \E s \in SpecsInputs, c \in CategoryInputs : CalculateQualityScore(s, c)
    \/ \E r \in RatingInputs : CalculateFinalScore(r)
    \/ Respond
    \/ \E c \in CustomCategories, sc \in CustomScorecards : AddCustomScorecard(c, sc)

SpecScorer == Init /\ [][NextScorer]_vars

----------------------------------------------------------------------------
(* Catalog Store: the products table and ProductDatabase.                  *)

Real(v) == [null |-> FALSE, v |-> v]            \* a REAL column value
NullReal == [null |-> TRUE, v |-> 0]            \* SQL NULL in a REAL column
Text(t) == [null |-> FALSE, v |-> t]            \* a TEXT column value
NullText == [null |-> TRUE, v |-> ""]           \* SQL NULL in a TEXT column

Row(name, category, price, rating, platform, final_score, description) ==
    [name |-> name, category |-> category, price |-> price, rating |-> rating,
     platform |-> platform, final_score |-> final_score, description |-> description]

\* INSERT INTO products ...: the row gets the next AUTOINCREMENT id.
InsertProduct(rows, id, row) ==
    [i \in DOMAIN rows \cup {id} |-> IF i = id THEN row ELSE rows[i]]

\* DELETE FROM products WHERE id = ?
DeleteRow(rows, id) == [i \in DOMAIN rows \ {id} |-> rows[i]]

\* WHERE category = ? AND price <= ? AND final_score >= ?  (NULL >= x is not true)
MatchesQuery(row, category, max_price, min_score) ==
    /\ row.category = category
    /\ row.price <= max_price
    /\ ~row.final_score.null
    /\ RLe(min_score, RInt(row.final_score.v))

\* ORDER BY final_score DESC, price ASC: a comes no later than b.
OrderedBefore(a, b) ==
    \/ a.final_score.v > b.final_score.v
    \/ a.final_score.v = b.final_score.v /\ a.price <= b.price

Injective(f) == \A i, j \in DOMAIN f : f[i] = f[j] => i = j

\* The orders in which SQLite may return the matching ids; rows that tie on
\* final_score and price come in an order the query does not fix.
QueryOrders(rows, ids) ==
    { o \in [1..Cardinality(ids) -> ids] :
        /\ Injective(o)
        /\ \A i, j \in DOMAIN o : i < j => OrderedBefore(rows[o[i]], rows[o[j]]) }

\* The result sets of the SELECT of find_alternatives, as sequences of rows with
\* their id; LIMIT ? keeps the first `limit` rows, and a negative LIMIT keeps
\* them all.
SelectAlternatives(rows, category, max_price, min_score, limit) ==
    LET ids == { i \in DOMAIN rows : MatchesQuery(rows[i], category, max_price, min_score) }
        n == IF limit < 0 \/ limit > Cardinality(ids) THEN Cardinality(ids) ELSE limit
    IN  { [k \in 1..n |-> [id |-> o[k]] @@ rows[o[k]]] : o \in QueryOrders(rows, ids) }

\* min_score = target_score * 0.9
MinScore(target_score) == RMul(RInt(target_score), Rat(9, 10))

\* find_alternatives: `result` is what self.db.execute_query did, [raised, val];
\* an exception is logged and [] is returned.
find_alternatives(result) ==
    IF result.raised
    THEN [raised |-> FALSE, val |-> <<>>]
    ELSE [raised |-> FALSE, val |-> result.val]

MaxProducts == 3
MaxLimit == 2

CatalogRows ==
    { Row("p", c, p, 4, "amazon", f, Text("d")) :
        c \in {"headphones", "mixer"},
        p \in {900, 1000, 1100},
        f \in {NullReal, Real(71), Real(72), Real(90)} }

\* db.add_product(product_data)
AddProduct(row) ==
    /\ alt.op = "none" /\ rec.op = "none"
    /\ seq < MaxProducts
    /\ seq' = seq + 1
    /\ products' = InsertProduct(products, seq + 1, row)
    /\ UNCHANGED <<category_scorecards, ret, alt,
                 use_chroma, collection, product_embeddings, rec, gen>>

\* db.delete_product(product_id)
DeleteProduct(product_id) ==
    /\ alt.op = "none" /\ rec.op = "none"
    /\ product_id \in DOMAIN products
    /\ products' = DeleteRow(products, product_id)
    /\ UNCHANGED <<category_scorecards, ret, seq, alt,
                 use_chroma, collection, product_embeddings, rec, gen>>

\* UPDATE products SET field = ?, ... WHERE id = ?
UpdateRow(row, product_data) ==
    [f \in DOMAIN row |-> IF f \in DOMAIN product_data THEN product_data[f] ELSE row[f]]

\* db.update_product(product_id, product_data)
UpdateProduct(product_id, product_data) ==
    /\ alt.op = "none" /\ rec.op = "none"
    /\ product_id \in DOMAIN products
    /\ products' = [products EXCEPT ![product_id] = UpdateRow(@, product_data)]
    /\ UNCHANGED <<category_scorecards, ret, seq, alt,
                   use_chroma, collection, product_embeddings, rec, gen>>

\* db.find_alternatives(category, target_score, max_price, limit) when the query
\* returns rows
FindAlternatives(category, target_score, max_price, limit) ==
    /\ alt.op = "none"
    /\ \E rows \in SelectAlternatives(products, category, max_price,
                                      MinScore(target_score), limit) :
          alt' = [op |-> "find_alternatives", category |-> category,
                  target_score |-> target_score, max_price |-> max_price,
                  limit |-> limit, query_failed |-> FALSE, catalog |-> products,
                  out |-> find_alternatives([raised |-> FALSE, val |-> rows])]
    /\ UNCHANGED <<category_scorecards, ret, products, seq,
                 use_chroma, collection, product_embeddings, rec, gen>>

\* db.find_alternatives(...) when execute_query raises (no connection, no table,
\* locked database)
FindAlternativesQueryFails(category, target_score, max_price, limit) ==
    /\ alt.op = "none"
    /\ alt' = [op |-> "find_alternatives", category |-> category,
               target_score |-> target_score, max_price |-> max_price,
               limit |-> limit, query_failed |-> TRUE, catalog |-> products,
               out |-> find_alternatives([raised |-> TRUE, val |-> <<>>])]
    /\ UNCHANGED <<category_scorecards, ret, products, seq,
                 use_chroma, collection, product_embeddings, rec, gen>>

\* The caller has used the alternatives (analyze_product builds its response).
RespondAlternatives ==
    /\ alt.op # "none"
    /\ alt' = NoAlternatives
    /\ UNCHANGED <<category_scorecards, ret, products, seq,
                   use_chroma, collection, product_embeddings, rec, gen>>

NextCatalog ==
    \/ \E row \in CatalogRows : AddProduct(row)
    \/ \E id \in 1..MaxProducts : DeleteProduct(id)
    \/ \E l \in 0..MaxLimit : FindAlternatives("headphones", 80, 1000, l)
    \/ \E l \in 0..MaxLimit : FindAlternativesQueryFails("headphones", 80, 1000, l)
    \/ RespondAlternatives

SpecCatalog == Init /\ [][NextCatalog]_vars

----------------------------------------------------------------------------
(* Recommendation engine: ProductRecommendationEngine.                     *)

\* float('nan'): 0.0 / 0.0 in numpy; every comparison with it is false.
NaN == <<0, 0>>
IsNaN(x) == x[2] = 0

\* round(x, 4): the nearest multiple of 1/10000, ties to even; round(nan, 4) is nan.
Round4(x) ==
    IF IsNaN(x) THEN NaN ELSE
    LET whole == x[1] \div x[2]
        rem   == x[1] % x[2]
        h     == (10000 * rem) \div x[2]
        r2    == 2 * ((10000 * rem) % x[2])
        up    == r2 > x[2] \/ (r2 = x[2] /\ h % 2 = 1)
    IN  Rat(whole * 10000 + h + (IF up THEN 1 ELSE 0), 10000)

\* f"{name} - {description}"
TextToEmbed(row) == <<row.name, " - ", row.description.v>>

\* self.model.encode([text])[0]: the sentence transformer is a fixed function
\* of the text; it is tabulated for the descriptions of the catalog rows, as
\* vectors of dimension 2: unit vectors, and the zero vector a model that
\* averages word vectors gives for a text of unknown words ("z").
encode(text) ==
    CASE text[3] = "a" -> <<Rat(3, 5), Rat(4, 5)>>
      [] text[3] = "b" -> <<Rat(4, 5), Rat(3, 5)>>
      [] text[3] = "z" -> <<RInt(0), RInt(0)>>
      [] OTHER         -> <<Rat(-3, 5), Rat(-4, 5)>>

\* np.dot(a, b)
Dot(a, b) == RAdd(RMul(a[1], b[1]), RMul(a[2], b[2]))

\* The square root of a perfect square.
ISqrt(n) == CHOOSE r \in 0..n : r * r = n

\* np.linalg.norm(a), for a vector whose norm is rational
Norm(a) == LET q == Dot(a, a) IN <<ISqrt(q[1]), ISqrt(q[2])>>

\* ChromaDB's default distance (hnsw:space l2): the squared Euclidean distance.
L2Squared(a, b) ==
    LET d1 == RSub(a[1], b[1])
        d2 == RSub(a[2], b[2])
    IN  RAdd(RMul(d1, d1), RMul(d2, d2))

\* sims = dot(db, target) / (norm(db) * (norm(target) + 1e-10)).  For a stored
\* vector of norm 0 this is 0.0 / 0.0, which numpy evaluates to nan with a
\* warning; for a target of norm 0 it is 0 / (norm(db) * 1e-10) = 0.  Otherwise
\* the term 1e-10 moves a similarity by less than 1e-9, which round(sim, 4)
\* absorbs for the vectors of encode, and it is left out.
CosineSim(db, target) ==
    IF Norm(db) = RInt(0) THEN NaN
    ELSE IF Norm(target) = RInt(0) THEN RInt(0)
    ELSE RDiv(Dot(db, target), RMul(Norm(db), Norm(target)))

\* WHERE id = ? AND description IS NOT NULL AND description != ''
HasDescription(rows, id) ==
    /\ id \in DOMAIN rows
    /\ ~rows[id].description.null
    /\ rows[id].description.v # ""

\* The metadata dictionary stored with an embedding in ChromaDB.
Metadata(row) ==
    [name |-> row.name, category |-> row.category, price |-> row.price,
     rating |-> row.rating, platform |-> row.platform]

\* The entries generate_embeddings_for_all_products builds from the products with
\* a description, as ChromaDB stores them.
ChromaEntries(rows) ==
    [i \in { j \in DOMAIN rows : HasDescription(rows, j) } |->
        [embedding |-> encode(TextToEmbed(rows[i])),
         document |-> TextToEmbed(rows[i]),
         metadata |-> Metadata(rows[i])]]

\* The same entries as rows of the SQLite table product_embeddings.
SqliteEntries(rows) ==
    [i \in { j \in DOMAIN rows : HasDescription(rows, j) } |->
        encode(TextToEmbed(rows[i]))]

\* collection.query(query_embeddings, n_results): the n_results nearest entries,
\* nearest first; entries at the same distance come in either order.
ChromaQuery(coll, query, n_results) ==
    LET ids == DOMAIN coll
        n   == IF n_results < Cardinality(ids) THEN n_results ELSE Cardinality(ids)
        nearestFirst ==
            { o \in [1..Cardinality(ids) -> ids] :
                /\ Injective(o)
                /\ \A i, j \in DOMAIN o :
                      i < j => RLe(L2Squared(coll[o[i]].embedding, query),
                                   L2Squared(coll[o[j]].embedding, query)) }
    IN  { [k \in 1..n |-> [id |-> o[k],
                           metadata |-> coll[o[k]].metadata,
                           distance |-> L2Squared(coll[o[k]].embedding, query),
                           document |-> coll[o[k]].document]] : o \in nearestFirst }

\* The loop over the ChromaDB results: the target is skipped, every other result
\* is appended, and the loop breaks once num_recommendations are collected.
RECURSIVE ChromaLoop(_, _, _, _, _)
ChromaLoop(results, i, recommendations, product_id, num_recommendations) ==
    IF i > Len(results) THEN recommendations
    ELSE IF results[i].id = product_id
    THEN ChromaLoop(results, i + 1, recommendations, product_id, num_recommendations)
    ELSE LET recommendation ==
                 [id |-> results[i].id,
                  name |-> results[i].metadata.name,
                  category |-> results[i].metadata.category,
                  price |-> results[i].metadata.price,
                  rating |-> results[i].metadata.rating,
                  platform |-> results[i].metadata.platform,
                  similarity_score |->
                      Round4(RDiv(RInt(1), RAdd(RInt(1), results[i].distance))),
                  description_preview |-> results[i].document]
             appended == Append(recommendations, recommendation)
         IN  IF Len(appended) >= num_recommendations THEN appended
             ELSE ChromaLoop(results, i + 1, appended, product_id, num_recommendations)

\* The ids of a set in ascending order: the order in which the rows of
\* product_embeddings are fetched.
RECURSIVE Ascending(_)
Ascending(ids) ==
    IF ids = {} THEN <<>> ELSE <<Min(ids)>> \o Ascending(ids \ {Min(ids)})

\* pairs.sort(key=lambda x: x[1], reverse=True): list.sort is stable and compares
\* with < only, so a pair moves in front of the pairs whose similarity is smaller
\* and stays behind every pair it does not compare greater than (nan included).
RECURSIVE InsertDescending(_, _)
InsertDescending(sorted, pair) ==
    IF sorted = <<>> THEN <<pair>>
    ELSE IF RLt(Head(sorted).sim, pair.sim) THEN <<pair>> \o sorted
    ELSE <<Head(sorted)>> \o InsertDescending(Tail(sorted), pair)

RECURSIVE SortDescending(_)
SortDescending(pairs) ==
    IF pairs = <<>> THEN <<>>
    ELSE InsertDescending(SortDescending(SubSeq(pairs, 1, Len(pairs) - 1)),
                          pairs[Len(pairs)])

\* SortedPairs without the filter "if pid != product_id".
SortedPairs_KeepsTarget(table, target_vec, product_id) ==
    LET o == Ascending(DOMAIN table)
    IN  SortDescending([k \in DOMAIN o |->
                           [pid |-> o[k], sim |-> CosineSim(table[o[k]], target_vec)]])

\* pairs, without the target, sorted by similarity descending.
SortedPairs(table, target_vec, product_id) ==
    LET o == Ascending(DOMAIN table \ {product_id})
    IN  SortDescending([k \in DOMAIN o |->
                           [pid |-> o[k], sim |-> CosineSim(table[o[k]], target_vec)]])

\* The loop over the top pairs of the SQLite backend: a pair whose product is no
\* longer in the catalog is skipped, the others take their fields from the
\* products table.
RECURSIVE SqliteLoop(_, _, _, _)
SqliteLoop(top, i, recommendations, rows) ==
    IF i > Len(top) THEN recommendations
    ELSE IF top[i].pid \notin DOMAIN rows
    THEN SqliteLoop(top, i + 1, recommendations, rows)
    ELSE LET row == rows[top[i].pid]
             recommendation ==
                 [id |-> top[i].pid,
                  name |-> row.name,
                  category |-> row.category,
                  price |-> row.price,
                  rating |-> row.rating,
                  platform |-> row.platform,
                  similarity_score |-> Round4(top[i].sim),
                  description_preview |->
                      <<IF row.description.null THEN "" ELSE row.description.v>>]
         IN  SqliteLoop(top, i + 1, Append(recommendations, recommendation), rows)

\* pairs[:num_recommendations]
TopPairs(pairs, num_recommendations) ==
    [k \in 1..(IF num_recommendations < Len(pairs) THEN num_recommendations
               ELSE Len(pairs)) |-> pairs[k]]

\* get_recommendations(product_id, num_recommendations): the outcomes [raised, val]
\* the call can have on the given catalog and index.
get_recommendations(rows, chroma, coll, table, product_id, num_recommendations) ==
    IF ~HasDescription(rows, product_id)
    THEN { [raised |-> FALSE, val |-> <<>>] }
    ELSE LET target_embedding == encode(TextToEmbed(rows[product_id]))
         IN  IF chroma
             THEN { [raised |-> FALSE,
                     val |-> ChromaLoop(results, 1, <<>>, product_id, num_recommendations)] :
                    results \in ChromaQuery(coll, target_embedding, num_recommendations + 1) }
             ELSE IF DOMAIN table = {}
             THEN { [raised |-> FALSE, val |-> <<>>] }
             ELSE { [raised |-> FALSE,
                     val |-> SqliteLoop(TopPairs(SortedPairs(table, target_embedding, product_id),
                                                 num_recommendations), 1, <<>>, rows)] }

\* GET /products/{product_id}/recommendations: the limit the route passes on.
CapLimit(limit) == IF limit > 20 THEN 20 ELSE limit

\* The HTTP status the route answers with for an outcome of get_recommendations:
\* an empty list is a 404, an exception a 500.
get_product_recommendations(out) ==
    IF out.raised THEN 500
    ELSE IF out.val = <<>> THEN 404
    ELSE 200

MaxK == 2

\* A new price and a new description for a product.
UpdateInputs == { [price |-> 950, description |-> Text("b")] }

RecoRows ==
    { Row("p", "headphones", 900, 4, "amazon", Real(72), d) :
        d \in {NullText, Text(""), Text("a"), Text("b"), Text("c")} }

\* The contents of both index stores.
IndexNow == [collection |-> collection, product_embeddings |-> product_embeddings]

\* engine.generate_embeddings_for_all_products()
GenerateEmbeddings ==
    /\ rec.op = "none"
    /\ IF \A i \in DOMAIN products : ~HasDescription(products, i)
       THEN UNCHANGED <<collection, product_embeddings>>
       ELSE IF use_chroma
       THEN /\ collection' = ChromaEntries(products)
            /\ UNCHANGED product_embeddings
       ELSE /\ product_embeddings' = SqliteEntries(products)
            /\ UNCHANGED collection
    /\ rec' = [NoRecommendations EXCEPT !.op = "generate_embeddings_for_all_products",
                                        !.before = IndexNow]
    /\ UNCHANGED <<category_scorecards, ret, products, seq, alt, use_chroma, gen>>

\* engine.add_product_embedding(product_id); duplicate_raises is whether the
\* installed ChromaDB rejects an add of an id it already holds (older releases
\* raise, newer ones ignore the add).
AddProductEmbedding(product_id, duplicate_raises) ==
    /\ rec.op = "none"
    /\ IF ~HasDescription(products, product_id)
       THEN /\ rec' = [NoRecommendations EXCEPT !.op = "add_product_embedding",
                                                !.product_id = product_id,
                                                !.before = IndexNow]
            /\ UNCHANGED collection
       ELSE IF ~use_chroma
       THEN \* self.collection is None: the call of its add raises
            /\ rec' = [NoRecommendations EXCEPT !.op = "add_product_embedding",
                                                !.product_id = product_id,
                                                !.before = IndexNow,
                                                !.found = TRUE,
                                                !.out.raised = TRUE]
            /\ UNCHANGED collection
       ELSE IF product_id \in DOMAIN collection
       THEN /\ rec' = [NoRecommendations EXCEPT !.op = "add_product_embedding",
                                                !.product_id = product_id,
                                                !.before = IndexNow,
                                                !.found = TRUE,
                                                !.out.raised = duplicate_raises]
            /\ UNCHANGED collection
       ELSE /\ rec' = [NoRecommendations EXCEPT !.op = "add_product_embedding",
                                                !.product_id = product_id,
                                                !.before = IndexNow,
                                                !.found = TRUE]
            /\ collection' =
                   [i \in DOMAIN collection \cup {product_id} |->
                       IF i = product_id
                       THEN [embedding |-> encode(TextToEmbed(products[i])),
                             document |-> TextToEmbed(products[i]),
                             metadata |-> Metadata(products[i])]
                       ELSE collection[i]]
    /\ UNCHANGED <<category_scorecards, ret, products, seq, alt, use_chroma,
                   product_embeddings, gen>>

\* Mutant of GetRecommendations: the query embedding of the target is stored in
\* the index as a side effect of the query.
GetRecommendations_StoresTarget(product_id, limit) ==
    /\ rec.op = "none"
    /\ \E out \in get_recommendations(products, use_chroma, collection, product_embeddings,
                                      product_id, CapLimit(limit)) :
          rec' = [op |-> "get_recommendations", product_id |-> product_id,
                  num_recommendations |-> CapLimit(limit),
                  found |-> HasDescription(products, product_id),
                  out |-> out, status |-> get_product_recommendations(out),
                  before |-> IndexNow]
    /\ product_embeddings' =
          IF HasDescription(products, product_id)
          THEN [i \in DOMAIN product_embeddings \cup {product_id} |->
                   IF i = product_id THEN encode(TextToEmbed(products[i]))
                   ELSE product_embeddings[i]]
          ELSE product_embeddings
    /\ UNCHANGED <<category_scorecards, ret, products, seq, alt,
                   use_chroma, collection, gen>>

\* GET /products/{product_id}/recommendations?limit=..., which calls
\* engine.get_recommendations(product_id, num_recommendations)
GetRecommendations(product_id, limit) ==
    /\ rec.op = "none"
    /\ \E out \in get_recommendations(products, use_chroma, collection, product_embeddings,
                                      product_id, CapLimit(limit)) :
          rec' = [op |-> "get_recommendations", product_id |-> product_id,
                  num_recommendations |-> CapLimit(limit),
                  found |-> HasDescription(products, product_id),
                  out |-> out, status |-> get_product_recommendations(out),
                  before |-> IndexNow]
    /\ UNCHANGED <<category_scorecards, ret, products, seq, alt,
                   use_chroma, collection, product_embeddings, gen>>

\* The same request when the database or the index cannot be read: the engine
\* logs the exception and raises it again
GetRecommendationsFails(product_id, limit) ==
    /\ rec.op = "none"
    /\ rec' = [op |-> "get_recommendations", product_id |-> product_id,
               num_recommendations |-> CapLimit(limit),
               found |-> HasDescription(products, product_id),
               out |-> [raised |-> TRUE, val |-> <<>>],
               status |-> get_product_recommendations([raised |-> TRUE, val |-> <<>>]),
               before |-> IndexNow]
    /\ UNCHANGED <<category_scorecards, ret, products, seq, alt,
                   use_chroma, collection, product_embeddings, gen>>

\* The caller has used the outcome of the engine call (the route answers).
RespondRecommendations ==
    /\ rec.op # "none"
    /\ rec' = NoRecommendations
    /\ UNCHANGED <<category_scorecards, ret, products, seq, alt,
                   use_chroma, collection, product_embeddings, gen>>

NextReco ==
    \/ \E row \in RecoRows : AddProduct(row)
    \/ \E id \in 1..MaxProducts : DeleteProduct(id)
    \/ \E id \in 1..MaxProducts, data \in UpdateInputs : UpdateProduct(id, data)
    \/ GenerateEmbeddings
    \/ \E id \in 1..MaxProducts, d \in BOOLEAN : AddProductEmbedding(id, d)
    \/ \E id \in 1..MaxProducts, k \in 0..MaxK : GetRecommendations(id, k)
    \/ \E id \in 1..MaxProducts, k \in 0..MaxK : GetRecommendationsFails(id, k)
    \/ RespondRecommendations

SpecReco == (Init \/ InitSqlite) /\ [][NextReco]_vars

\* Catalog rows for an encoder that can return the zero vector.
ZeroNormRows ==
    { Row("p", "headphones", 900, 4, "amazon", Real(72), d) :
        d \in {Text("a"), Text("c"), Text("z")} }

\* The brute-force backend over such a catalog.
NextZeroNorm ==
    \/ \E row \in ZeroNormRows : AddProduct(row)
    \/ \E id \in 1..MaxProducts : DeleteProduct(id)
    \/ GenerateEmbeddings
    \/ \E id \in 1..MaxProducts, k \in 1..MaxK : GetRecommendations(id, k)
    \/ RespondRecommendations

SpecZeroNorm == InitSqlite /\ [][NextZeroNorm]_vars

----------------------------------------------------------------------------
(* generate_embeddings_for_all_products step by step: each call it makes   *)
(* on the catalog, the encoder or the index is one step, and a step can    *)
(* raise.                                                                  *)

\* collection.add(ids, ...): an id the collection already holds keeps its entry.
ChromaAdd(coll, entries) ==
    [i \in DOMAIN coll \cup DOMAIN entries |->
        IF i \in DOMAIN coll THEN coll[i] ELSE entries[i]]

\* collection.delete(ids=ids)
ChromaDelete(coll, ids) == [i \in DOMAIN coll \ ids |-> coll[i]]

\* products = self.get_products_from_db(); embeddings = self.model.encode(...).
\* Either can raise; with no described product the method returns at once.
GenerateRead(ok) ==
    /\ rec.op = "none" /\ alt.op = "none"
    /\ gen.pc = "idle"
    /\ gen' = [pc |-> IF ~ok THEN "failed"
                      ELSE IF \A i \in DOMAIN products : ~HasDescription(products, i)
                      THEN "done"
                      ELSE "read",
               rows |-> IF ok THEN products ELSE <<>>,
               ids |-> {},
               before |-> IndexNow]
    /\ UNCHANGED <<category_scorecards, ret, products, seq, alt,
                   use_chroma, collection, product_embeddings, rec>>

\* existing_data = self.collection.get(); when it raises, the warning is logged
\* and the delete is skipped.
CollectionGet(ok) ==
    /\ gen.pc = "read" /\ use_chroma
    /\ gen' = [gen EXCEPT !.pc = IF ok THEN "got" ELSE "deleted",
                          !.ids = IF ok THEN DOMAIN collection ELSE {}]
    /\ UNCHANGED <<category_scorecards, ret, products, seq, alt,
                   use_chroma, collection, product_embeddings, rec>>

\* if existing_data.get('ids'): self.collection.delete(ids=existing_data['ids']);
\* when it raises, the warning is logged and the method goes on.
CollectionDelete(ok) ==
    /\ gen.pc = "got"
    /\ gen' = [gen EXCEPT !.pc = "deleted"]
    /\ collection' = IF ok THEN ChromaDelete(collection, gen.ids) ELSE collection
    /\ UNCHANGED <<category_scorecards, ret, products, seq, alt,
                   use_chroma, product_embeddings, rec>>

\* self.collection.add(embeddings, documents, metadatas, ids); it raises when the
\* index cannot be written, or when an id is already held and the installed
\* ChromaDB rejects duplicates.
CollectionAdd(ok, duplicate_raises) ==
    /\ gen.pc = "deleted"
    /\ LET entries == ChromaEntries(gen.rows)
           raises == \/ ~ok
                     \/ duplicate_raises /\ DOMAIN entries \cap DOMAIN collection # {}
       IN  /\ gen' = [gen EXCEPT !.pc = IF raises THEN "failed" ELSE "done"]
           /\ collection' = IF raises THEN collection ELSE ChromaAdd(collection, entries)
    /\ UNCHANGED <<category_scorecards, ret, products, seq, alt,
                   use_chroma, product_embeddings, rec>>

\* The SQLite branch: DELETE FROM product_embeddings and the INSERT OR REPLACE of
\* every row run in one transaction that conn.commit() ends; when a statement
\* raises nothing is committed.
SqliteWrite(ok) ==
    /\ gen.pc = "read" /\ ~use_chroma
    /\ gen' = [gen EXCEPT !.pc = IF ok THEN "done" ELSE "failed"]
    /\ product_embeddings' = IF ok THEN SqliteEntries(gen.rows) ELSE product_embeddings
    /\ UNCHANGED <<category_scorecards, ret, products, seq, alt,
                   use_chroma, collection, rec>>

\* The method has returned or raised, and its caller goes on.
Return ==
    /\ gen.pc \in {"done", "failed"}
    /\ gen' = NoReindex
    /\ UNCHANGED <<category_scorecards, ret, products, seq, alt,
                   use_chroma, collection, product_embeddings, rec>>

\* The steps of a rebuild taken while no other call of the engine or of the
\* catalog is pending.
NoCallPending == rec.op = "none" /\ alt.op = "none"
GenerateGet(ok) == NoCallPending /\ CollectionGet(ok)
GenerateDelete(ok) == NoCallPending /\ CollectionDelete(ok)
GenerateAdd(ok, duplicate_raises) == NoCallPending /\ CollectionAdd(ok, duplicate_raises)
GenerateWriteSqlite(ok) == NoCallPending /\ SqliteWrite(ok)
GenerateReturn == NoCallPending /\ Return

\* No generate_embeddings_for_all_products is in progress.
Quiet == gen.pc = "idle"

\* A rebuild runs to its end before the catalog or the index is written by
\* another call; queries are answered while it runs.
NextReindex ==
    \/ \E ok \in BOOLEAN : GenerateRead(ok)
    \/ \E ok \in BOOLEAN : GenerateGet(ok)
    \/ \E ok \in BOOLEAN : GenerateDelete(ok)
    \/ \E ok \in BOOLEAN, d \in BOOLEAN : GenerateAdd(ok, d)
    \/ \E ok \in BOOLEAN : GenerateWriteSqlite(ok)
    \/ GenerateReturn
    \/ Quiet /\ \E row \in RecoRows : AddProduct(row)
    \/ Quiet /\ \E id \in 1..MaxProducts : DeleteProduct(id)
    \/ Quiet /\ \E id \in 1..MaxProducts, d \in BOOLEAN : AddProductEmbedding(id, d)
    \/ \E id \in 1..MaxProducts, k \in 1..MaxK : GetRecommendations(id, k)
    \/ RespondRecommendations

SpecReindex == (Init \/ InitSqlite) /\ [][NextReindex]_vars

\* The rebuild has read the catalog and has not yet finished writing the index.
InProgress == gen.pc \in {"read", "got", "deleted"}

\* Catalog rows with a description.
DescribedRows ==
    { Row("p", "headphones", 900, 4, "amazon", Real(72), d) :
        d \in {Text("a"), Text("b")} }

\* Nothing serializes the engine's writers: while a rebuild is in progress a
\* product can be created and add_product_embedding can run (POST
\* /embeddings/add next to POST /embeddings/generate or the rebuild script), and
\* the rebuild goes on while the caller of add_product_embedding holds its
\* result.  The rebuild's own calls succeed here.
NextConcurrent ==
    \/ GenerateRead(TRUE)
    \/ CollectionGet(TRUE)
    \/ CollectionDelete(TRUE)
    \/ \E d \in BOOLEAN : CollectionAdd(TRUE, d)
    \/ SqliteWrite(TRUE)
    \/ GenerateReturn
    \/ \E row \in DescribedRows : AddProduct(row)
    \/ Quiet /\ \E id \in 1..MaxProducts : DeleteProduct(id)
    \/ (Quiet \/ InProgress) /\ \E id \in 1..MaxProducts, d \in BOOLEAN :
                                    AddProductEmbedding(id, d)
    \/ (Quiet \/ gen.pc = "done") /\ RespondRecommendations

SpecConcurrent == (Init \/ InitSqlite) /\ [][NextConcurrent]_vars

----------------------------------------------------------------------------
(* Claims about the Quality Scorer, checked under SpecScorer.              *)

QualityCall == ret.op = "calculate_quality_score"
FinalCall == ret.op = "calculate_final_score"
EmptySpecs == Dict(<<>>)
RAbs(x) == <<Abs(x[1]), x[2]>>
IsHundredth(x) == 100 % x[2] = 0
\* The category whose scorecard the call scores against.
ScoredCategory ==
    IF ret.category \in DOMAIN category_scorecards THEN ret.category ELSE "general"
BuiltinScorecardUsed == ScoredCategory \notin Customized(category_scorecards)

\* C1 as stated: calculate_quality_score({}, category) returns exactly 60.0 for
\* every category.
C1_EmptySpecsAlways60 ==
    (QualityCall /\ ret.specs = EmptySpecs) => ret.out.val = RInt(60)

EmptySpecsScore ==
    [ headphones |-> 48, trimmer |-> 48, mixer |-> 60, smartphone |-> 60,
      laptop |-> 60, clothing |-> 72, general |-> 70 ]

\* C1 amended: with the built-in scorecards, calculate_quality_score({}, category)
\* returns 60.0 for mixer, smartphone and laptop (no feature is extracted, every
\* feature earns 0.6 * weight), 48.0 for headphones and trimmer, 72.0 for clothing
\* and 70.0 for general and every unknown category, because the boolean, ordinal
\* and synthesized features are present also for empty specs.
C1_EmptySpecsScore ==
    (QualityCall /\ ret.specs = EmptySpecs /\ BuiltinScorecardUsed)
        => ret.out = [raised |-> FALSE, val |-> RInt(EmptySpecsScore[ScoredCategory])]

C1_Witness ==
    /\ QualityCall /\ ret.specs = EmptySpecs
    /\ ret.category = "headphones" /\ ret.out.val = RInt(48)

\* Specs that state every scorecard feature that is not "lower is better" at its
\* reference value or above, under the keys the normalizers read.
FullyMatchingSpecs ==
    [ headphones |->
        Dict(<<It("battery_life", <<N(40), W("h")>>), It("driver_size", <<N(50), W("mm")>>),
               It("noise_cancellation", <<W("active"), W("noise"), W("cancellation")>>),
               It("build_quality", <<W("premium"), W("metal"), W("construction")>>),
               It("frequency_response", <<N(40000), W("hz")>>)>>),
      trimmer |->
        Dict(<<It("runtime", <<N(120), W("min")>>),
               It("blade_material", <<W("stainless"), W("steel")>>),
               It("waterproof", <<W("waterproof")>>), It("attachments", <<N(10)>>)>>),
      mixer |->
        Dict(<<It("power", <<N(1000), W("w")>>), It("jars", <<N(5)>>),
               It("speeds", <<N(10)>>), It("warranty", <<N(5), W("years")>>),
               It("safety_features", <<N(5)>>)>>),
      smartphone |->
        Dict(<<It("camera", <<N(108), W("mp")>>), It("battery", <<N(5000), W("mah")>>),
               It("ram", <<N(12), W("gb")>>), It("processor", <<N(5)>>),
               It("storage", <<N(256), W("gb")>>)>>),
      laptop |-> CHOOSE x \in LaptopSpecs : TRUE,
      clothing |->
        Dict(<<It("material", <<W("cotton")>>), It("fit", <<N(5)>>),
               It("durability", <<N(5)>>), It("comfort", <<N(5)>>),
               It("design", <<N(5)>>)>>) ]

\* C2 as stated: for every category with a registered scorecard, specs that give
\* every feature that is not "lower is better" at or above its reference value
\* score 100.
C2_FullyMatchingScores100 ==
    (/\ QualityCall
     /\ ret.category \in DOMAIN FullyMatchingSpecs
     /\ ret.specs = FullyMatchingSpecs[ret.category]
     /\ BuiltinScorecardUsed)
        => ret.out.val = RInt(100)

\* C3: calculate_quality_score returns a value q with 0 <= q <= 100, for every
\* specs argument and every category, registered, custom-registered or unknown.
C3_ScoreInRange ==
    QualityCall =>
        /\ ~ret.out.raised
        /\ RLe(RInt(0), ret.out.val)
        /\ RLe(ret.out.val, RInt(100))

\* A custom scorecard with a negative weight: the unclamped score is below 0.
C3_Witness ==
    /\ QualityCall
    /\ ret.category = "custom"
    /\ "custom" \in DOMAIN category_scorecards
    /\ category_scorecards["custom"] = [quality |-> -30, x |-> 40]
    /\ ret.specs = EmptySpecs
    /\ ret.out.val = RInt(0)

\* C4: calculate_quality_score never raises; when the normalization fails (specs
\* is no mapping) or the scoring fails (the weights sum to zero), it returns 60.0.
C4_NeverRaises ==
    QualityCall =>
        /\ ~ret.out.raised
        /\ (\/ NormalizeDispatch(ret.specs, ScoredCategory).raised
            \/ QualityScoreBody(category_scorecards, ret.specs, ret.category).raised)
               => ret.out.val = RInt(60)

C4_Witness ==
    /\ QualityCall
    /\ ret.specs = NoneSpecs
    /\ QualityScoreBody(category_scorecards, ret.specs, ret.category).raised
    /\ ret.out = [raised |-> FALSE, val |-> RInt(60)]

\* C5 as stated: calculate_final_score(q, 5.0) = q for every quality score q
\* that calculate_quality_score can return.
C5_Rating5IsIdentity ==
    (FinalCall /\ ret.rating = Float(RInt(5))) => ret.out.val = ret.q

\* C5 amended: calculate_final_score(q, 5.0) is q rounded to two decimal places:
\* a multiple of 0.01 within 0.005 of q, equal to q when q has at most two
\* decimals.
C5_Rating5RoundsQuality ==
    (FinalCall /\ ret.rating = Float(RInt(5))) =>
        /\ IsHundredth(ret.out.val)
        /\ RLe(RAbs(RSub(ret.out.val, ret.q)), Rat(1, 200))
        /\ IsHundredth(ret.q) => ret.out.val = ret.q

\* q = 42.00025 (headphones, frequency_response "1 hz") gives 42.0.
C5_Witness ==
    /\ FinalCall /\ ret.rating = Float(RInt(5))
    /\ ret.q = Rat(168001, 4000) /\ ret.out.val = RInt(42)

\* C6: calculate_final_score(q, r) is q * (r / 5) rounded to two decimal places,
\* and the rating is not clamped (a rating of 6 scales by 1.2).
C6_FinalScoreIsRoundedProduct ==
    (FinalCall /\ ret.rating.kind = "float") =>
        /\ IsHundredth(ret.out.val)
        /\ RLe(RAbs(RSub(ret.out.val, RDiv(RMul(ret.q, ret.rating.v), RInt(5)))),
               Rat(1, 200))

C6_Witness ==
    /\ FinalCall /\ ret.rating = Float(RInt(6))
    /\ ret.q = RInt(100) /\ ret.out.val = RInt(120)

----------------------------------------------------------------------------
(* Claims about the Catalog Store, checked under SpecCatalog.              *)

AlternativesCall == alt.op = "find_alternatives"

\* A product of the catalog the call saw qualifies as an alternative: same
\* category, price <= max_price, final_score >= 0.9 * target_score.
Qualifies(row) ==
    /\ row.category = alt.category
    /\ row.price <= alt.max_price
    /\ ~row.final_score.null
    /\ 10 * row.final_score.v >= 9 * alt.target_score

ReturnedIds == { alt.out.val[k].id : k \in DOMAIN alt.out.val }

\* The returned list holds rows of the catalog, each once, all qualifying.
OnlyQualifying ==
    /\ \A k \in DOMAIN alt.out.val :
          /\ alt.out.val[k].id \in DOMAIN alt.catalog
          /\ [id |-> alt.out.val[k].id] @@ alt.catalog[alt.out.val[k].id] = alt.out.val[k]
          /\ Qualifies(alt.out.val[k])
    /\ Cardinality(ReturnedIds) = Len(alt.out.val)

\* final_score descending, then price ascending.
SortedByScoreThenPrice ==
    \A i, j \in DOMAIN alt.out.val :
        i < j => \/ alt.out.val[i].final_score.v > alt.out.val[j].final_score.v
                 \/ /\ alt.out.val[i].final_score.v = alt.out.val[j].final_score.v
                    /\ alt.out.val[i].price <= alt.out.val[j].price

\* A qualifying product is left out only when `limit` rows that rank no worse
\* are returned.
OmitsOnlyBeyondLimit ==
    \A i \in DOMAIN alt.catalog :
        (Qualifies(alt.catalog[i]) /\ i \notin ReturnedIds) =>
            /\ Len(alt.out.val) = alt.limit
            /\ \A k \in DOMAIN alt.out.val :
                  \/ alt.out.val[k].final_score.v > alt.catalog[i].final_score.v
                  \/ /\ alt.out.val[k].final_score.v = alt.catalog[i].final_score.v
                     /\ alt.out.val[k].price <= alt.catalog[i].price

\* C8: every call of find_alternatives returns only products of the same
\* category with price <= max_price and final_score >= 0.9 * target_score,
\* sorted by final_score descending then price ascending, at most `limit` of
\* them, and omits a qualifying product only when `limit` better-ranked ones
\* are returned.
C8_AlternativesContract ==
    AlternativesCall =>
        /\ ~alt.out.raised
        /\ OnlyQualifying
        /\ SortedByScoreThenPrice
        /\ Len(alt.out.val) <= alt.limit
        /\ OmitsOnlyBeyondLimit

\* The contract of C8 restricted to calls whose query succeeds.
AlternativesContractOnSuccess ==
    (AlternativesCall /\ ~alt.query_failed) => C8_AlternativesContract

\* A successful call with a limit that truncates a result with a tie.
AlternativesTruncated ==
    /\ AlternativesCall /\ ~alt.query_failed /\ alt.limit = 1
    /\ Len(alt.out.val) = 1
    /\ \E i \in DOMAIN alt.catalog : Qualifies(alt.catalog[i]) /\ i \notin ReturnedIds

\* C9: when the Catalog Store query fails, find_alternatives raises to its
\* caller; an empty list is returned only when no product of the catalog
\* qualifies.
C9_QueryFailurePropagates ==
    AlternativesCall =>
        /\ alt.query_failed => alt.out.raised
        /\ (~alt.out.raised /\ alt.out.val = <<>> /\ alt.limit # 0) =>
               \A i \in DOMAIN alt.catalog : ~Qualifies(alt.catalog[i])

----------------------------------------------------------------------------
(* Claims about the recommendation engine, checked under SpecReco.         *)

RecommendationsCall == rec.op = "get_recommendations"

\* C10: get_recommendations(product_id, k) raises (NotFound) when the product id
\* is absent from the catalog or its description is null or empty; it never
\* returns a successful empty list in that case.
C10_MissingProductRaises ==
    (RecommendationsCall /\ ~rec.found) =>
        /\ rec.out.raised
        /\ ~(~rec.out.raised /\ rec.out.val = <<>>)

\* A product with a description and no neighbour gets the same answer as a
\* product without a description: an empty list, and a 404 from the route.
NoNeighboursLooksLikeNoDescription ==
    (RecommendationsCall /\ ~rec.out.raised /\ rec.out.val = <<>>) => rec.status = 404

\* Recommendations are returned on either backend.
RecommendationsReturned ==
    RecommendationsCall /\ rec.found /\ Len(rec.out.val) = 1 /\ rec.status = 200

\* The ids of the entries the backend in use holds.
IndexedIds == IF use_chroma THEN DOMAIN collection ELSE DOMAIN product_embeddings

RecommendedIds == { rec.out.val[i].id : i \in DOMAIN rec.out.val }

\* C11: on either backend, for every index and catalog state, every product id p
\* and every k >= 1, no entry of get_recommendations(p, k) has id p.
C11_TargetNeverRecommended ==
    (RecommendationsCall /\ ~rec.out.raised /\ rec.num_recommendations >= 1) =>
        rec.product_id \notin RecommendedIds

\* A call for a product that is itself in the index, with k >= 1, on the SQLite
\* backend, that returns recommendations.
C11_Witness ==
    /\ RecommendationsCall /\ ~rec.out.raised /\ rec.num_recommendations >= 1
    /\ ~use_chroma
    /\ rec.product_id \in IndexedIds
    /\ rec.out.val # <<>>

\* The same on the ChromaDB backend.
TargetIndexedInChroma ==
    /\ RecommendationsCall /\ ~rec.out.raised /\ rec.num_recommendations >= 1
    /\ use_chroma
    /\ rec.product_id \in IndexedIds
    /\ rec.out.val # <<>>

\* The returned entries come in non-increasing order of similarity_score.
NonIncreasingSimilarity ==
    \A i, j \in DOMAIN rec.out.val :
        i < j => RLe(rec.out.val[j].similarity_score, rec.out.val[i].similarity_score)

\* C12: on either backend, get_recommendations(p, k) returns at most k entries,
\* ordered by non-increasing similarity_score.
C12_AtMostKByDescendingSimilarity ==
    (RecommendationsCall /\ ~rec.out.raised) =>
        /\ Len(rec.out.val) <= rec.num_recommendations
        /\ NonIncreasingSimilarity

\* The statement of C12 for the calls with k >= 1.
AtMostKForPositiveK ==
    (RecommendationsCall /\ rec.num_recommendations >= 1) => C12_AtMostKByDescendingSimilarity

\* Two recommendations with different scores are returned.
TwoRankedRecommendations ==
    /\ RecommendationsCall /\ Len(rec.out.val) = 2
    /\ rec.out.val[1].similarity_score # rec.out.val[2].similarity_score

\* A call with k = 1 for which the index holds two other products.
TruncatedToK ==
    /\ RecommendationsCall /\ rec.num_recommendations = 1 /\ Len(rec.out.val) = 1
    /\ Cardinality(IndexedIds \ {rec.product_id}) = 2

\* C13: every similarity_score returned by get_recommendations lies in [0, 1], on
\* both backends, for every pair of stored and query vectors.
C13_SimilarityInUnitInterval ==
    (RecommendationsCall /\ ~rec.out.raised) =>
        \A i \in DOMAIN rec.out.val :
            /\ RLe(RInt(0), rec.out.val[i].similarity_score)
            /\ RLe(rec.out.val[i].similarity_score, RInt(1))

\* The statement of C13 for the ChromaDB backend, whose score is 1 / (1 + distance).
ChromaSimilarityInUnitInterval == use_chroma => C13_SimilarityInUnitInterval

\* The ids of a list of recommendations, in order.
IdsOf(recommendations) == [i \in DOMAIN recommendations |-> recommendations[i].id]

\* The vectors of the ChromaDB collection as rows of product_embeddings.
VectorsOf(coll) == [i \in DOMAIN coll |-> coll[i].embedding]

\* What the SQLite backend returns for the last call from the vectors the
\* ChromaDB collection holds.
BruteForceOnSameVectors ==
    get_recommendations(products, FALSE, <<>>, VectorsOf(collection),
                        rec.product_id, rec.num_recommendations)

\* C14: for the same stored vectors and the same query vector the ChromaDB
\* backend and the brute-force SQLite backend return the same sequence of ids
\* for the top k.
C14_BackendsReturnSameIds ==
    (RecommendationsCall /\ ~rec.out.raised /\ use_chroma) =>
        \A out \in BruteForceOnSameVectors : IdsOf(out.val) = IdsOf(rec.out.val)

\* No two stored vectors other than the target's are equal.
NoEqualVectors ==
    \A i, j \in DOMAIN collection \ {rec.product_id} :
        collection[i].embedding = collection[j].embedding => i = j

\* The statement of C14 for k >= 1, when every indexed product is still in the
\* catalog and no two neighbours are at the same distance.
BackendsAgreeOnFreshIndex ==
    (/\ rec.num_recommendations >= 1
     /\ DOMAIN collection \subseteq DOMAIN products
     /\ NoEqualVectors) => C14_BackendsReturnSameIds

\* Both backends rank two neighbours of a fresh index.
TwoNeighboursOnFreshIndex ==
    /\ RecommendationsCall /\ use_chroma /\ Len(rec.out.val) = 2
    /\ DOMAIN collection \subseteq DOMAIN products
    /\ NoEqualVectors

GenerateCall == rec.op = "generate_embeddings_for_all_products"

\* The catalog products with a non-empty description.
DescribedIds == { i \in DOMAIN products : HasDescription(products, i) }

\* The vector the backend in use holds for an indexed id.
IndexedVector(i) == IF use_chroma THEN collection[i].embedding ELSE product_embeddings[i]

\* C15: after generate_embeddings_for_all_products returns successfully the ids
\* in the index are exactly the catalog products with a non-empty description,
\* each with the vector of its current text and no entry from before the call
\* left, also for a catalog with no described product.
C15_ReindexMirrorsCatalog ==
    (GenerateCall /\ ~rec.out.raised) =>
        /\ IndexedIds = DescribedIds
        /\ \A i \in IndexedIds : IndexedVector(i) = encode(TextToEmbed(products[i]))

\* The statement of C15 for a catalog with at least one described product.
ReindexMirrorsDescribedCatalog ==
    DescribedIds # {} => C15_ReindexMirrorsCatalog

\* A rebuild that replaced a stale index: a described product was not indexed
\* before the call or an indexed one is no longer described.
ReindexOverStaleIndex ==
    /\ GenerateCall /\ DescribedIds # {}
    /\ Cardinality(DescribedIds) < Cardinality(DOMAIN products)

AddEmbeddingCall == rec.op = "add_product_embedding"

\* The ids the backend in use held when the last call was made.
IndexedIdsBefore ==
    IF use_chroma THEN DOMAIN rec.before.collection
    ELSE DOMAIN rec.before.product_embeddings

\* The last call repeats an add_product_embedding for the same unchanged text:
\* the index already held the vector of the product's current text.
RepeatedAdd ==
    /\ AddEmbeddingCall /\ rec.found
    /\ rec.product_id \in IndexedIdsBefore
    /\ (IF use_chroma THEN rec.before.collection[rec.product_id].embedding
        ELSE rec.before.product_embeddings[rec.product_id])
           = encode(TextToEmbed(products[rec.product_id]))

\* C16: add_product_embedding called for a product with a description succeeds,
\* the first time and when repeated for the same unchanged text, and leaves a
\* vector for that id; the repeated call leaves the index as large as it was.
C16_AddEmbeddingIdempotent ==
    (AddEmbeddingCall /\ rec.found) =>
        /\ ~rec.out.raised
        /\ rec.product_id \in IndexedIds
        /\ RepeatedAdd => IndexedIds = IndexedIdsBefore

\* The statement of C16 on the ChromaDB backend with a ChromaDB release that
\* ignores the add of an id it holds.
AddIdempotentWhenDuplicateIgnored ==
    (use_chroma /\ ~rec.out.raised) => C16_AddEmbeddingIdempotent

\* A repeated add on the ChromaDB backend that succeeded.
RepeatedAddSucceeded == RepeatedAdd /\ use_chroma /\ ~rec.out.raised

\* C17: after add_product_embedding(id) returns for a catalog product with a
\* non-empty description, the backend in use holds a vector for id and it is the
\* embedding of the product's current name and description, whether or not an
\* older entry for id existed.
C17_AddEmbeddingInsertsOrReplaces ==
    (AddEmbeddingCall /\ rec.found /\ ~rec.out.raised) =>
        /\ rec.product_id \in IndexedIds
        /\ IndexedVector(rec.product_id) = encode(TextToEmbed(products[rec.product_id]))

\* The statement of C17 for a product that had no entry in the index.
AddEmbeddingInsertsNewId ==
    rec.product_id \notin IndexedIdsBefore => C17_AddEmbeddingInsertsOrReplaces

\* An add that returned for a product that had no entry in the index.
NewIdAdded ==
    /\ AddEmbeddingCall /\ rec.found /\ ~rec.out.raised
    /\ rec.product_id \notin IndexedIdsBefore

\* A recommendation carries the catalog's values for its id.
CarriesCatalogValues(r) ==
    /\ r.id \in DOMAIN products
    /\ r.name = products[r.id].name
    /\ r.category = products[r.id].category
    /\ r.price = products[r.id].price
    /\ r.rating = products[r.id].rating
    /\ r.platform = products[r.id].platform

\* C18: on either backend, every recommendation returned by get_recommendations
\* has the name, category, price, rating and platform the Catalog Store holds for
\* that id at the time of the call, also when the product was updated or
\* deleted after its vector was indexed.
C18_RecommendationsCarryCatalogValues ==
    (RecommendationsCall /\ ~rec.out.raised) =>
        \A i \in DOMAIN rec.out.val : CarriesCatalogValues(rec.out.val[i])

\* The statement of C18 for the SQLite backend.
SqliteRecommendationsCarryCatalogValues ==
    ~use_chroma => C18_RecommendationsCarryCatalogValues

\* The SQLite backend recommends a product that was updated after it was indexed.
SqliteRecommendsUpdatedProduct ==
    /\ RecommendationsCall /\ ~use_chroma
    /\ \E i \in DOMAIN rec.out.val :
          /\ rec.out.val[i].price = 950
          /\ product_embeddings[rec.out.val[i].id] # encode(TextToEmbed(products[rec.out.val[i].id]))

----------------------------------------------------------------------------
(* Claims about a rebuild of the index, step by step.                      *)

\* The index a rebuild leaves when it writes everything it read.
FullNewContents ==
    [collection |-> IF use_chroma THEN ChromaEntries(gen.rows) ELSE collection,
     product_embeddings |-> IF use_chroma THEN product_embeddings
                            ELSE SqliteEntries(gen.rows)]

\* C19: generate_embeddings_for_all_products is all-or-nothing on either
\* backend: when it fails at any step the index is exactly what it was before
\* the call, otherwise it holds the full new contents; no partially cleared or
\* partially filled index is left behind.  Checked under SpecReindex.
C19_ReindexAllOrNothing ==
    /\ gen.pc = "failed" => IndexNow = gen.before
    /\ gen.pc = "done" => IndexNow = FullNewContents

\* The statement of C19 about failures, for the SQLite backend.
SqliteReindexFailsCleanly ==
    (~use_chroma /\ gen.pc = "failed") => IndexNow = gen.before

\* A rebuild of a non-empty SQLite index failed in its transaction.
SqliteReindexFailedOnWrite ==
    /\ ~use_chroma /\ gen.pc = "failed"
    /\ gen.rows # <<>>
    /\ DOMAIN product_embeddings # {}
    /\ product_embeddings # SqliteEntries(gen.rows)

\* The statement of C19 about failures, for the ChromaDB backend.
ChromaReindexFailsCleanly ==
    (use_chroma /\ gen.pc = "failed") => IndexNow = gen.before

\* A rebuild has read the catalog and has not yet returned or raised.
RebuildInProgress == gen.pc \in {"read", "got", "deleted"}

\* C20: a get_recommendations query that runs concurrently with
\* generate_embeddings_for_all_products on the same index observes the complete
\* pre-rebuild contents or the complete post-rebuild contents, never an empty,
\* partially cleared or partially refilled index.  Checked under SpecReindex.
C20_QuerySeesWholeIndex ==
    (RecommendationsCall /\ RebuildInProgress) =>
        \/ rec.before = gen.before
        \/ rec.before = FullNewContents

\* The statement of C20 for the SQLite backend.
SqliteQuerySeesWholeIndex == ~use_chroma => C20_QuerySeesWholeIndex

\* A query answered from the SQLite table while a rebuild of a non-empty table
\* is in progress.
SqliteQueryDuringRebuild ==
    /\ RecommendationsCall /\ RebuildInProgress /\ ~use_chroma
    /\ rec.out.val # <<>>

----------------------------------------------------------------------------
(* Claims about feature extraction and scoring, checked under SpecScorer.  *)

TrimmerCall == QualityCall /\ ret.category = "trimmer" /\ ret.specs.kind = "dict"

\* The charging time in hours a specs mapping states, as a set: {} when none.
StatedChargingTime(specs) ==
    _extract_numeric_value(Get(specs, "charging_time", <<>>), <<"h">>)

\* The points the scoring loop adds for one feature of the trimmer scorecard.
TrimmerPoints(specs, feature) ==
    FeaturePoints(feature, category_scorecards["trimmer"][feature],
                  _normalize_specs(specs, "trimmer"), reference_values["trimmer"])

\* weight * (1 - clamp(v / reference, 0, 1)) for the charging_time feature.
InversePoints(v) ==
    LET weight == category_scorecards["trimmer"]["charging_time"]
        reference == reference_values["trimmer"]["charging_time"]
        ratio == RMax(RInt(0), RMin(Rat(v, reference), RInt(1)))
    IN  RMul(RInt(weight), RSub(RInt(1), ratio))

\* The score of a trimmer whose charging_time feature earns `points`.
TrimmerScoreWith(specs, points) ==
    LET scorecard == category_scorecards["trimmer"]
        others == TotalPoints(DOMAIN scorecard \ {"charging_time"}, scorecard,
                              _normalize_specs(specs, "trimmer"),
                              reference_values["trimmer"])
    IN  ClampScore(RMul(RDiv(RAdd(others, points), RInt(SumValues(scorecard))),
                        RInt(100)))

\* C21: for a trimmer whose specs state a charging time v, the charging_time
\* feature contributes weight * (1 - clamp(v / reference, 0, 1)) points to the
\* quality score, so that a shorter charging time never scores lower than a
\* longer one.
C21_ChargingTimeScoredInversely ==
    (TrimmerCall /\ StatedChargingTime(ret.specs) # {}) =>
        LET v == Val(StatedChargingTime(ret.specs))
        IN  /\ TrimmerPoints(ret.specs, "charging_time") = InversePoints(v)
            /\ ret.out.val = TrimmerScoreWith(ret.specs, InversePoints(v))

\* What the code does instead: charging_time is never extracted, so it earns the
\* 0.6 * weight default whatever the specs state.
ChargingTimeEarnsDefault ==
    TrimmerCall =>
        /\ "charging_time" \notin DOMAIN _normalize_specs(ret.specs, "trimmer")
        /\ TrimmerPoints(ret.specs, "charging_time") = RInt(6)
        /\ ret.out.val = TrimmerScoreWith(ret.specs, RInt(6))

\* The same specs with the charging_time text replaced.
WithChargingTime(specs, text) ==
    Dict([i \in 1..Len(specs.items) |->
            IF specs.items[i].k = "charging_time"
            THEN It("charging_time", text) ELSE specs.items[i]])

\* A shorter stated charging time never scores lower than a longer one (it
\* scores the same).
ShorterChargingTimeNotLower ==
    (TrimmerCall /\ StatedChargingTime(ret.specs) = {1}) =>
        RLe(calculate_quality_score(category_scorecards,
                                    WithChargingTime(ret.specs, <<N(8), W("h")>>),
                                    "trimmer").val,
            ret.out.val)

ChargingTimeStated ==
    /\ TrimmerCall /\ StatedChargingTime(ret.specs) = {1}
    /\ ret.out.val = RInt(96)

\* The ordinal-quality feature of a category and the vocabulary its normalizer
\* tests the concatenated spec text for.
OrdinalFeature ==
    [ headphones |-> "build_quality", trimmer |-> "blade_material",
      clothing |-> "material" ]
PremiumVocabulary ==
    [ headphones |-> {<<"metal">>, <<"aluminum">>, <<"premium">>, <<"steel">>},
      trimmer    |-> {<<"stainless", "steel">>, <<"titanium">>},
      clothing   |-> {<<"cotton">>, <<"silk">>, <<"wool">>, <<"linen">>, <<"organic">>} ]
BasicVocabulary ==
    [ headphones |-> {<<"plastic">>, <<"basic">>},
      trimmer    |-> {},
      clothing   |-> {<<"polyester">>, <<"synthetic">>, <<"blend">>} ]

\* 5 for a premium token, else 2 for a basic token, else 3.
OrdinalByVocabulary(text, category) ==
    IF AnyKeyword(text, PremiumVocabulary[category]) THEN 5
    ELSE IF AnyKeyword(text, BasicVocabulary[category]) THEN 2
    ELSE 3

\* The quality score the scoring loop computes from a normalized feature set.
ScoreFrom(category, normalized_specs) ==
    LET scorecard == category_scorecards[category]
        reference_vals == IF category \in DOMAIN reference_values
                          THEN reference_values[category] ELSE Empty
    IN  ClampScore(RMul(RDiv(TotalPoints(DOMAIN scorecard, scorecard, normalized_specs,
                                         reference_vals),
                             RInt(SumValues(scorecard))),
                        RInt(100)))

OrdinalCall ==
    QualityCall /\ ret.specs.kind = "dict" /\ ret.category \in DOMAIN OrdinalFeature

OrdinalAsClaimed ==
    LET normalized == _normalize_specs(ret.specs, ret.category)
        feature == OrdinalFeature[ret.category]
        claimed == OrdinalByVocabulary(JoinValues(ret.specs.items), ret.category)
    IN  /\ feature \in DOMAIN normalized
        /\ normalized[feature] \in {2, 3, 5}
        /\ normalized[feature] = claimed
        /\ ret.out.val = ScoreFrom(ret.category, (feature :> claimed) @@ normalized)

\* C22: the ordinal-quality feature of headphones (build_quality), trimmer
\* (blade_material) and clothing (material) is always in the normalized set with a
\* value in {2, 3, 5}: 5 if the spec text has a premium token, else 2 if it has a
\* basic token, else 3, and the score is computed from that value.
C22_OrdinalIsTwoThreeOrFive ==
    OrdinalCall => OrdinalAsClaimed

\* The claim holds for headphones and clothing.
OrdinalOfHeadphonesAndClothing ==
    (OrdinalCall /\ ret.category # "trimmer") => OrdinalAsClaimed

\* What the trimmer normalizer computes: 5, 4 or 3, never 2.
TrimmerBladeIsThreeFourOrFive ==
    (OrdinalCall /\ ret.category = "trimmer") =>
        LET text == JoinValues(ret.specs.items)
            blade == _normalize_specs(ret.specs, "trimmer")["blade_material"]
        IN  blade = IF AnyKeyword(text, PremiumVocabulary["trimmer"]) THEN 5
                    ELSE IF AnyKeyword(text, {<<"steel">>, <<"ceramic">>}) THEN 4
                    ELSE 3

\* Text with a premium and a basic token gives 5.
PremiumBeforeBasic ==
    /\ OrdinalCall /\ ret.category = "headphones"
    /\ Get(ret.specs, "build_quality", <<>>) = <<W("metal"), W("plastic")>>
    /\ _normalize_specs(ret.specs, "headphones")["build_quality"] = 5

CeramicBlade ==
    /\ OrdinalCall /\ ret.category = "trimmer"
    /\ Get(ret.specs, "blade_material", <<>>) = <<W("ceramic")>>
    /\ _normalize_specs(ret.specs, "trimmer")["blade_material"] = 4

HeadphonesCall ==
    QualityCall /\ ret.category = "headphones" /\ ret.specs.kind = "dict"

\* The numeric-with-unit features of headphones: the keys read and the unit
\* patterns tried, in order.
HeadphonesNumeric ==
    { [feature |-> "battery_life", key |-> "battery_life", other |-> "Battery Life",
       patterns |-> <<"h">>],
      [feature |-> "driver_size", key |-> "driver_size", other |-> "Driver Size",
       patterns |-> <<"mm">>],
      [feature |-> "frequency_response", key |-> "frequency_response",
       other |-> "Frequency Response", patterns |-> <<"hz", "khz">>] }

\* The first value matching a unit pattern, multiplied by 1000 if and only if the
\* unit that follows the matched value is kHz.
RECURSIVE ExtractByMatchedUnit(_, _)
ExtractByMatchedUnit(text, patterns) ==
    IF text = <<>> \/ patterns = <<>> THEN {}
    ELSE LET m == MatchAt(text, Head(patterns))
         IN  IF m # {}
             THEN LET i == Min(m)
                      in_khz == /\ i < Len(text)
                                /\ text[i + 1].t = "w"
                                /\ "khz" \in Starts(text[i + 1].w)
                  IN  IF in_khz THEN {text[i].n * 1000} ELSE {text[i].n}
             ELSE ExtractByMatchedUnit(text, Tail(patterns))

TextOf(specs, nf) == Get(specs, nf.key, Get(specs, nf.other, <<>>))

\* The normalized headphones features when the numeric ones are read by
\* ExtractByMatchedUnit.
RECURSIVE NumericByMatchedUnit(_, _)
NumericByMatchedUnit(specs, nfs) ==
    IF nfs = {} THEN Empty
    ELSE LET nf == CHOOSE x \in nfs : TRUE
         IN  Feature(ExtractByMatchedUnit(TextOf(specs, nf), nf.patterns), nf.feature)
             @@ NumericByMatchedUnit(specs, nfs \ {nf})

HeadphonesByMatchedUnit(specs) ==
    LET normalized == _normalize_specs(specs, "headphones")
    IN  NumericByMatchedUnit(specs, HeadphonesNumeric)
        @@ [f \in {"noise_cancellation", "build_quality"} |-> normalized[f]]

\* C23: _extract_numeric_value returns the first value matching a unit pattern,
\* multiplied by 1000 if and only if that matched value is itself given in kHz; a
\* value in Hz, hours or mm is returned as it stands even when the text contains
\* 'khz' elsewhere.
C23_KhzMultipliesOnlyMatchedValue ==
    HeadphonesCall =>
        /\ \A nf \in HeadphonesNumeric :
              _extract_numeric_value(TextOf(ret.specs, nf), nf.patterns)
                  = ExtractByMatchedUnit(TextOf(ret.specs, nf), nf.patterns)
        /\ ret.out.val = ScoreFrom("headphones", HeadphonesByMatchedUnit(ret.specs))

KhzElsewhere(specs) ==
    \E nf \in HeadphonesNumeric :
        LET text == TextOf(specs, nf)
        IN  /\ Has(text, <<"khz">>)
            /\ MatchAt(text, Head(nf.patterns)) # {}

\* The claim holds for texts whose matched value is the one given in kHz and for
\* texts without 'khz'.
KhzMultipliesWhenNoOtherValue ==
    (HeadphonesCall /\ ~KhzElsewhere(ret.specs)) =>
        /\ \A nf \in HeadphonesNumeric :
              _extract_numeric_value(TextOf(ret.specs, nf), nf.patterns)
                  = ExtractByMatchedUnit(TextOf(ret.specs, nf), nf.patterns)
        /\ ret.out.val = ScoreFrom("headphones", HeadphonesByMatchedUnit(ret.specs))

\* '20 khz' alone is read as 20000.
KhzValueMultiplied ==
    /\ HeadphonesCall
    /\ Get(ret.specs, "frequency_response", <<>>) = <<N(20), W("khz")>>
    /\ _normalize_specs(ret.specs, "headphones")["frequency_response"] = 20000

\* '10 h 1 khz' as battery life is read as 10000 hours.
HoursMultiplied ==
    /\ HeadphonesCall
    /\ Get(ret.specs, "battery_life", <<>>) = <<N(10), W("h"), N(1), W("khz")>>
    /\ _normalize_specs(ret.specs, "headphones")["battery_life"] = 10000

\* The category a step registered a scorecard for, when the step changed
\* category_scorecards.
RegisteredCategory ==
    CHOOSE c \in DOMAIN category_scorecards' :
        \/ c \notin DOMAIN category_scorecards
        \/ category_scorecards'[c] # category_scorecards[c]

\* Every scorecard registered before the step is registered unchanged after it,
\* and every category but the registered one scores every specs as before.
OnlyAddsKey ==
    /\ \A c \in DOMAIN category_scorecards :
          /\ c \in DOMAIN category_scorecards'
          /\ category_scorecards'[c] = category_scorecards[c]
    /\ \A s \in SpecsInputs, c \in CategoryInputs \ {RegisteredCategory} :
          calculate_quality_score(category_scorecards', s, c)
              = calculate_quality_score(category_scorecards, s, c)

\* C24: add_custom_scorecard(category, scorecard) only adds a key: every scorecard
\* registered before the call is unchanged after it, and calculate_quality_score
\* returns the same value as before for every specs and every category other than
\* the one the call registered.
C24_AddCustomScorecardOnlyAddsKey ==
    [][category_scorecards' # category_scorecards => OnlyAddsKey]_vars

\* The claim holds for a call that registers a category that had no scorecard.
AddOfNewCategoryOnlyAddsKey ==
    [][(/\ category_scorecards' # category_scorecards
        /\ RegisteredCategory \notin DOMAIN category_scorecards) => OnlyAddsKey]_vars

\* 'custom' was registered: a call added a key.
CustomCategoryAdded ==
    /\ "custom" \in DOMAIN category_scorecards
    /\ \A c \in DOMAIN DefaultScorecards : category_scorecards[c] = DefaultScorecards[c]

\* 'general' holds another scorecard than the built-in one: a call replaced it.
GeneralScorecardReplaced ==
    category_scorecards["general"] # DefaultScorecards["general"]

\* The numeric-with-unit features each normalizer extracts: the keys read and the
\* unit patterns tried.
NumericFeatures ==
    [ headphones |-> HeadphonesNumeric,
      trimmer |->
        { [feature |-> "runtime", key |-> "runtime", other |-> "Battery Life",
           patterns |-> <<"min">>],
          [feature |-> "attachments", key |-> "attachments", other |-> "Accessories",
           patterns |-> <<"">>] },
      mixer |->
        { [feature |-> "power_output", key |-> "power", other |-> "Power",
           patterns |-> <<"w">>],
          [feature |-> "jar_count", key |-> "jars", other |-> "Jars",
           patterns |-> <<"">>],
          [feature |-> "speed_settings", key |-> "speeds", other |-> "Speed Settings",
           patterns |-> <<"">>] },
      smartphone |->
        { [feature |-> "camera", key |-> "camera", other |-> "Camera",
           patterns |-> <<"mp">>],
          [feature |-> "battery", key |-> "battery", other |-> "Battery",
           patterns |-> <<"mah">>],
          [feature |-> "ram", key |-> "ram", other |-> "RAM", patterns |-> <<"gb">>] } ]

NumericCall ==
    QualityCall /\ ret.specs.kind = "dict" /\ ret.category \in DOMAIN NumericFeatures

Extracted(specs, nf) == _extract_numeric_value(TextOf(specs, nf), nf.patterns)

\* The numeric features that are present: a pattern matched with a value above 0.
RECURSIVE PositiveNumeric(_, _)
PositiveNumeric(specs, nfs) ==
    IF nfs = {} THEN Empty
    ELSE LET nf == CHOOSE x \in nfs : TRUE
             x == Extracted(specs, nf)
         IN  (IF x # {} /\ Val(x) > 0 THEN nf.feature :> Val(x) ELSE Empty)
             @@ PositiveNumeric(specs, nfs \ {nf})

\* The normalized set in which a numeric feature is present only with a value
\* above 0; the other features as the normalizer sets them.
ZeroAsAbsent(specs, category) ==
    LET normalized == _normalize_specs(specs, category)
        numeric == { nf.feature : nf \in NumericFeatures[category] }
    IN  PositiveNumeric(specs, NumericFeatures[category])
        @@ [f \in DOMAIN normalized \ numeric |-> normalized[f]]

NumericPoints(nf) ==
    FeaturePoints(nf.feature, category_scorecards[ret.category][nf.feature],
                  _normalize_specs(ret.specs, ret.category),
                  reference_values[ret.category])

\* C29: a numeric-with-unit feature whose text matches its pattern with the value
\* 0 is treated as absent and earns the 0.6 * weight default; a numeric feature
\* contributes either 0.6 * weight (absent or zero) or
\* weight * clamp(value / reference, 0, 1) with value > 0, never 0 points.
C29_ZeroValueIsAbsent ==
    NumericCall =>
        /\ \A nf \in NumericFeatures[ret.category] :
              LET x == Extracted(ret.specs, nf)
                  weight == category_scorecards[ret.category][nf.feature]
                  reference == reference_values[ret.category][nf.feature]
              IN  /\ RLt(RInt(0), NumericPoints(nf))
                  /\ IF x = {} \/ x = {0}
                     THEN NumericPoints(nf) = RMul(RInt(weight), Rat(6, 10))
                     ELSE /\ Val(x) > 0
                          /\ NumericPoints(nf)
                                = RMul(RInt(weight),
                                       RMax(RInt(0), RMin(Rat(Val(x), reference), RInt(1))))
        /\ ret.out.val = ScoreFrom(ret.category, ZeroAsAbsent(ret.specs, ret.category))

\* '0 h' battery life scores as no battery life at all.
C29_Witness ==
    /\ NumericCall /\ ret.category = "headphones"
    /\ Get(ret.specs, "battery_life", <<>>) = <<N(0), W("h")>>
    /\ Len(ret.specs.items) = 1
    /\ ret.out.val = RInt(48)

\* A call with a specs mapping that is scored against the 'general' scorecard:
\* category 'general' or a category with no registered scorecard.
GeneralCall ==
    QualityCall /\ ret.specs.kind = "dict" /\ ScoredCategory = "general"

\* A mapping with one entry of no meaning to any normalizer.
OneEntrySpecs == Dict(<<It("k", <<W("v")>>)>>)

GeneralReplacedScoresZero ==
    /\ GeneralCall /\ ret.specs = EmptySpecs
    /\ category_scorecards["general"] = [features |-> 10]
    /\ ret.out.val = RInt(0)

----------------------------------------------------------------------------
(* Claims about the brute-force similarity, checked under SpecZeroNorm.    *)

SqliteQuery ==
    rec.op = "get_recommendations" /\ ~use_chroma /\ ~rec.out.raised

\* The query vector of the call: the embedding of the target's current text.
QueryVector == encode(TextToEmbed(products[rec.product_id]))

ZeroNorm(v) == Norm(v) = RInt(0)

\* C25: in the brute-force backend the denominator of the cosine similarity is
\* never zero: every similarity is a defined number, and a stored vector or a
\* query vector of norm zero yields the similarity 0.
C25_ZeroNormYieldsZero ==
    (SqliteQuery /\ rec.found) =>
        /\ \A id \in DOMAIN product_embeddings \ {rec.product_id} :
              LET sim == CosineSim(product_embeddings[id], QueryVector)
              IN  /\ ~IsNaN(sim)
                  /\ (ZeroNorm(product_embeddings[id]) \/ ZeroNorm(QueryVector))
                        => sim = RInt(0)
        /\ \A i \in DOMAIN rec.out.val :
              LET r == rec.out.val[i]
              IN  /\ ~IsNaN(r.similarity_score)
                  /\ (ZeroNorm(product_embeddings[r.id]) \/ ZeroNorm(QueryVector))
                        => r.similarity_score = RInt(0)

\* A query vector of norm zero against stored vectors of norm above zero does
\* yield the similarity 0.
ZeroQueryYieldsZero ==
    (SqliteQuery /\ rec.found /\ ZeroNorm(QueryVector)) =>
        \A i \in DOMAIN rec.out.val :
            ~ZeroNorm(product_embeddings[rec.out.val[i].id])
                => rec.out.val[i].similarity_score = RInt(0)

\* A stored vector of norm zero yields nan, whatever the query vector.
ZeroStoredYieldsNaN ==
    (SqliteQuery /\ rec.found) =>
        \A i \in DOMAIN rec.out.val :
            ZeroNorm(product_embeddings[rec.out.val[i].id])
                <=> IsNaN(rec.out.val[i].similarity_score)

ZeroQueryAnswered ==
    /\ SqliteQuery /\ rec.found /\ ZeroNorm(QueryVector)
    /\ \E i \in DOMAIN rec.out.val : rec.out.val[i].similarity_score = RInt(0)

NaNReturned ==
    /\ SqliteQuery /\ rec.found /\ ~ZeroNorm(QueryVector)
    /\ \E i \in DOMAIN rec.out.val : IsNaN(rec.out.val[i].similarity_score)

----------------------------------------------------------------------------
(* The index stores row by row.  In SpecRows collection and                *)
(* product_embeddings hold the sequence of the rows the store keeps, in    *)
(* the order they were written, so that two rows with the same id are      *)
(* representable and the key of each store is a property to be checked:    *)
(* product_id INTEGER PRIMARY KEY with INSERT OR REPLACE in SQLite, the    *)
(* unique ids of a ChromaDB collection.                                    *)

RECURSIVE Keep(_, _)
Keep(rows, ids) ==                              \* the rows whose id is in ids
    IF rows = <<>> THEN <<>>
    ELSE (IF Head(rows).id \in ids THEN <<Head(rows)>> ELSE <<>>) \o Keep(Tail(rows), ids)

RowIds(rows) == { rows[i].id : i \in DOMAIN rows }

\* The rows a rebuild writes for the described products, in id order.
NewRows(rows) ==
    LET o == Ascending({ i \in DOMAIN rows : HasDescription(rows, i) })
    IN  [k \in DOMAIN o |-> [id |-> o[k], embedding |-> encode(TextToEmbed(rows[o[k]]))]]

\* INSERT OR REPLACE INTO product_embeddings(product_id, embedding): a row with
\* the same primary key is deleted before the new row is inserted.
SqlInsertOrReplace(table, row) ==
    Append(Keep(table, RowIds(table) \ {row.id}), row)

RECURSIVE SqlInsertAll(_, _)
SqlInsertAll(table, rows) ==
    IF rows = <<>> THEN table
    ELSE SqlInsertAll(SqlInsertOrReplace(table, Head(rows)), Tail(rows))

\* Mutant of RowsAdd: every entry is appended, also for an id already held.
RowsAdd_AppendsAll(coll, entries) == coll \o entries

\* collection.add(ids, ...) when it does not raise: an entry whose id the
\* collection already holds is ignored.
RowsAdd(coll, entries) ==
    coll \o Keep(entries, RowIds(entries) \ RowIds(coll))

\* collection.delete(ids=ids)
RowsDelete(coll, ids) == Keep(coll, RowIds(coll) \ ids)

RowsCall(op, product_id) ==
    [NoRecommendations EXCEPT !.op = op, !.product_id = product_id, !.before = IndexNow]

\* engine.generate_embeddings_for_all_products(); get_ok, delete_ok and add_ok
\* are whether collection.get, collection.delete and collection.add (or the
\* SQLite transaction) go through.
RowsGenerateEmbeddings(get_ok, delete_ok, add_ok, duplicate_raises) ==
    /\ rec.op = "none"
    /\ rec' = RowsCall("generate_embeddings_for_all_products", 0)
    /\ LET entries == NewRows(products)
       IN  IF entries = <<>>
           THEN UNCHANGED <<collection, product_embeddings>>
           ELSE IF use_chroma
           THEN LET cleared == IF get_ok /\ delete_ok
                               THEN RowsDelete(collection, RowIds(collection))
                               ELSE collection
                    raises == \/ ~add_ok
                              \/ duplicate_raises /\ RowIds(entries) \cap RowIds(cleared) # {}
                IN  /\ collection' = IF raises THEN cleared ELSE RowsAdd(cleared, entries)
                    /\ UNCHANGED product_embeddings
           ELSE /\ product_embeddings' =
                       IF add_ok THEN SqlInsertAll(<<>>, entries) ELSE product_embeddings
                /\ UNCHANGED collection
    /\ UNCHANGED <<category_scorecards, ret, products, seq, alt, use_chroma, gen>>

\* engine.add_product_embedding(product_id)
RowsAddProductEmbedding(product_id, duplicate_raises) ==
    /\ rec.op = "none"
    /\ rec' = RowsCall("add_product_embedding", product_id)
    /\ IF /\ HasDescription(products, product_id)
          /\ use_chroma
          /\ ~(duplicate_raises /\ product_id \in RowIds(collection))
       THEN collection' =
                RowsAdd(collection,
                        <<[id |-> product_id,
                           embedding |-> encode(TextToEmbed(products[product_id]))]>>)
       ELSE UNCHANGED collection
    /\ UNCHANGED <<category_scorecards, ret, products, seq, alt, use_chroma,
                   product_embeddings, gen>>

NextRows ==
    \/ \E row \in RecoRows : AddProduct(row)
    \/ \E id \in 1..MaxProducts : DeleteProduct(id)
    \/ \E id \in 1..MaxProducts, data \in UpdateInputs : UpdateProduct(id, data)
    \/ \E g \in BOOLEAN, d \in BOOLEAN, a \in BOOLEAN, r \in BOOLEAN :
          RowsGenerateEmbeddings(g, d, a, r)
    \/ \E id \in 1..MaxProducts, r \in BOOLEAN : RowsAddProductEmbedding(id, r)
    \/ RespondRecommendations

SpecRows == (Init \/ InitSqlite) /\ [][NextRows]_vars

----------------------------------------------------------------------------
(* Claims about the rows of the index, checked under SpecRows.             *)

OneRowPerId(rows) == \A i, j \in DOMAIN rows : rows[i].id = rows[j].id => i = j

SqliteRowsRewritten ==
    /\ rec.op = "generate_embeddings_for_all_products" /\ ~use_chroma
    /\ rec.before.product_embeddings # <<>>
    /\ Len(product_embeddings) >= 2

----------------------------------------------------------------------------
(* Claims about what a query leaves alone, checked under SpecReco.         *)

\* The step is a call of get_recommendations, whatever its outcome.
QueryStep == rec.op = "none" /\ rec'.op = "get_recommendations"

\* C26: get_recommendations is read-only: whether it returns recommendations,
\* returns empty or raises, the stored (id, vector) entries of both index stores
\* and all product rows are the same after the call as before it.
C26_QueryIsReadOnly ==
    [][QueryStep => /\ collection' = collection
                    /\ product_embeddings' = product_embeddings
                    /\ products' = products
                    /\ seq' = seq]_vars

\* A query that returned a neighbour left the index as it found it.
C26_Witness ==
    /\ rec.op = "get_recommendations"
    /\ ~rec.out.raised /\ rec.out.val # <<>>
    /\ rec.before = IndexNow

\* A query that raised left the index as it found it.
FailedQueryLeftIndex ==
    /\ rec.op = "get_recommendations" /\ rec.out.raised
    /\ rec.before = IndexNow /\ DOMAIN collection # {}

\* Every pending query sees the index it was answered from.
QueryLeavesIndex ==
    rec.op = "get_recommendations" => rec.before = IndexNow

----------------------------------------------------------------------------
(* Claims about concurrent writers of the index, checked under             *)
(* SpecConcurrent.                                                         *)

\* add_product_embedding(p) has returned normally for a described product while
\* the rebuild was in progress (a rebuild starts only when no call is pending),
\* and the rebuild has written the index to its end.
BothCompleted ==
    /\ gen.pc = "done"
    /\ rec.op = "add_product_embedding" /\ rec.found /\ ~rec.out.raised

IndexedNow == IF use_chroma THEN DOMAIN collection ELSE DOMAIN product_embeddings

\* C30: an add_product_embedding(p) that completes successfully while
\* generate_embeddings_for_all_products is in progress is not lost: once both have
\* completed and p is still in the catalog with a description, the index holds a
\* vector for p, under every interleaving.
C30_ConcurrentAddNotLost ==
    (BothCompleted /\ HasDescription(products, rec.product_id))
        => rec.product_id \in IndexedNow

\* The add is not lost when the rebuild had read the product from the catalog.
AddOfProductTheRebuildReadNotLost ==
    (/\ BothCompleted
     /\ HasDescription(products, rec.product_id)
     /\ HasDescription(gen.rows, rec.product_id))
        => rec.product_id \in IndexedNow

\* The add is not lost when it ran after the rebuild had listed the ids to delete.
AddAfterGetNotLost ==
    (/\ BothCompleted
     /\ HasDescription(products, rec.product_id)
     /\ rec.product_id \notin gen.ids)
        => rec.product_id \in IndexedNow

\* An add that ran during a rebuild and survived it.
ConcurrentAddKept ==
    /\ BothCompleted
    /\ ~HasDescription(gen.rows, rec.product_id)
    /\ rec.product_id \in IndexedNow

\* An add that ran during a rebuild and was deleted by it.
ConcurrentAddLost ==
    /\ BothCompleted
    /\ HasDescription(products, rec.product_id)
    /\ rec.product_id \in gen.ids
    /\ rec.product_id \notin IndexedNow

====
